---------------------------- MODULE Spec2Model ----------------------------
(***************************************************************************)
(* Content ingestion pipeline: the text sanitizer, the token counter with  *)
(* its lazily loaded tokenizer, the rate-limited embedding batcher, and    *)
(* the ingestion orchestrator over the documents and chunks tables and     *)
(* the vector store.                                                       *)
(*                                                                         *)
(* Strings are sequences of UTF-16 code units (integers), so that          *)
(* String.length is Len and the regular expressions of the source are      *)
(* character-range tests on the code unit.                                 *)
(***************************************************************************)
EXTENDS Integers, Sequences, FiniteSets, TLC

VARIABLES
    \* ---- Sanitizer (one call of the module's exported functions) ----
    sanPc,          \* "start" | "sanitized" | "resanitized" | "validated" | "checkedEmpty"
    sanInput,       \* the raw text handed to the call
    sanMinLength,   \* the minLength argument of sanitizeAndValidate
    sanOut,         \* sanitizeText(sanInput)
    sanOut2,        \* sanitizeText(sanOut)
    sanResult,      \* {text, valid, length} returned by sanitizeAndValidate
    sanEmpty,       \* isEmptyText(sanInput)
    \* ---- TokenCounter (module state and the calls in progress) ----
    tokenizerPromise,   \* the module's cached promise: NoPromise, Pending, or what it resolved to
    importsStarted,     \* how many times the tokenizer load was started
    initFailed,         \* history: the tokenizer load has failed
    observed,           \* history: every value an awaiting caller received from getTokenizer
    callers,            \* per caller: the call in progress and its result
    \* ---- Mistral embeddings (client, provider requests, runs in progress) ----
    mistralReady,   \* the module's client exists (MISTRAL_API_KEY was configured)
    now,            \* wall clock, in seconds
    requests,       \* log of the calls of mistral.embeddings.create, in sending order
    runs,           \* per run: one call of createEmbeddings or createEmbeddingsBatched
    \* ---- Ingestion orchestrator (the two stores and the calls in progress) ----
    documents,      \* the documents table of the owner: id -> row
    chunks,         \* the chunks table: a set of rows
    vectors,        \* the vector store's namespace: a set of records
    quotaUsed,      \* the owner's quota counter: documents reserved
    jobs,           \* per job: one call of ingest, re-ingest or delete
    \* ---- Upload validation and the URL guard (one request) ----
    upload,         \* the request: its body, where it stands, what it was answered
    dns,            \* the records of the requested host: A answer and AAAA addresses
    externalCalls,  \* log of the calls to services outside the process
    \* ---- Clerk webhook (the tables and the deliveries in progress) ----
    webhookSecret,  \* Env.CLERK_WEBHOOK_SECRET is set
    users,          \* the users table: a set of rows
    userDocuments,  \* the documents table, by owner: a set of rows
    userChunks,     \* the chunks of those documents: a set of rows
    deliveries,     \* per delivery: one call of the webhook's POST handler
    \* ---- Pinecone index (the service and the calls in progress) ----
    pineconeReady,  \* the module's client exists (PINECONE_API_KEY was configured)
    indexes,        \* the names of the indexes the service has
    createRequests, \* log of the createIndex requests, in sending order
    ensureCalls     \* per call: one call of ensureIndexExists

sanVars == <<sanPc, sanInput, sanMinLength, sanOut, sanOut2, sanResult, sanEmpty>>

tokVars == <<tokenizerPromise, importsStarted, initFailed, observed, callers>>

embVars == <<mistralReady, now, requests, runs>>

orcVars == <<documents, chunks, vectors, quotaUsed, jobs>>

upVars == <<upload, dns, externalCalls>>

hookVars == <<webhookSecret, users, userDocuments, userChunks, deliveries>>

pineVars == <<pineconeReady, indexes, createRequests, ensureCalls>>

vars == <<sanVars, tokVars, embVars, orcVars, upVars, hookVars, pineVars>>

\* What the calls of one component leave alone: the other components' state.
sanOthers == <<tokVars, embVars, orcVars, upVars, hookVars, pineVars>>
tokOthers == <<sanVars, embVars, orcVars, upVars, hookVars, pineVars>>
embOthers == <<sanVars, tokVars, orcVars, upVars, hookVars, pineVars>>
orcOthers == <<sanVars, tokVars, embVars, upVars, hookVars, pineVars>>
upOthers == <<sanVars, tokVars, embVars, orcVars, hookVars, pineVars>>
hookOthers == <<sanVars, tokVars, embVars, orcVars, upVars, pineVars>>
pineOthers == <<sanVars, tokVars, embVars, orcVars, upVars, hookVars>>

Max(a, b) == IF a >= b THEN a ELSE b
Min(a, b) == IF a <= b THEN a ELSE b

(***************************************************************************)
(* Code units used by the inputs.                                          *)
(***************************************************************************)
NUL == 0
TAB == 9
LF == 10
CR == 13
SP == 32
UNIT_SEP == 31
LATIN_E == 101
E_ACUTE == 233
COMBINING_ACUTE == 769
ZWSP == 8203
RLO == 8238
BOM == 65279

(***************************************************************************)
(* Sanitizer                                                               *)
(***************************************************************************)

\* /[\x00-\x08\v\f\x0E-\x1F\x7F-\x9F]/
CONTROL_CHAR_REGEX(c) ==
    \/ c \in 0..8
    \/ c = 11
    \/ c = 12
    \/ c \in 14..31
    \/ c \in 127..159

\* /[\u200B-\u200D\uFEFF\u00AD]/
ZERO_WIDTH_REGEX(c) == c \in 8203..8205 \/ c = 65279 \/ c = 173

\* /[\u202A-\u202E\u2066-\u2069]/
BIDI_CONTROL_REGEX(c) == c \in 8234..8238 \/ c \in 8294..8297

\* The code units String.prototype.trim removes (WhiteSpace and LineTerminator).
IsTrimmed(c) ==
    \/ c \in 9..13
    \/ c = 32
    \/ c = 160
    \/ c = 5760
    \/ c \in 8192..8202
    \/ c \in {8232, 8233, 8239, 8287, 12288, 65279}

\* A global regex replacement that deletes code units: the units at the
\* positions in drop are removed, the others kept in order (code units are
\* >= 0, so -1 marks a deleted position).
deleteAt(s, drop) ==
    SelectSeq([i \in 1..Len(s) |-> IF i \in drop THEN -1 ELSE s[i]], LAMBDA c : c # -1)

\* text.normalize('NFC') on the code units of the inputs: the only canonical
\* composition among them is e + U+0301 -> U+00E9 (the e becomes U+00E9 and
\* the mark that follows it goes); every other unit is a starter that
\* composes with nothing.
normalizeNFC(s) ==
    LET composed == [i \in 1..Len(s) |->
            IF s[i] = LATIN_E /\ i < Len(s) /\ s[i + 1] = COMBINING_ACUTE
            THEN E_ACUTE ELSE s[i]]
    IN  deleteAt(composed,
                 {i \in 2..Len(s) : s[i] = COMBINING_ACUTE /\ s[i - 1] = LATIN_E})

\* .replace(CONTROL_CHAR_REGEX, '')
removeControl(s) == SelectSeq(s, LAMBDA c : ~CONTROL_CHAR_REGEX(c))

\* .replace(ZERO_WIDTH_REGEX, '')
removeZeroWidth(s) == SelectSeq(s, LAMBDA c : ~ZERO_WIDTH_REGEX(c))

\* .replace(BIDI_CONTROL_REGEX, '')
removeBidi(s) == SelectSeq(s, LAMBDA c : ~BIDI_CONTROL_REGEX(c))

\* .replace(/\r\n/g, '\n'): of each CR LF pair the LF stays.
replaceCRLF(s) == deleteAt(s, {i \in 1..(Len(s) - 1) : s[i] = CR /\ s[i + 1] = LF})

\* .replace(/\r/g, '\n')
replaceCR(s) == [i \in 1..Len(s) |-> IF s[i] = CR THEN LF ELSE s[i]]

\* .replace(/ +/g, ' '): of each maximal run of spaces the first stays.
MULTI_SPACE_REGEX(s) == deleteAt(s, {i \in 2..Len(s) : s[i] = SP /\ s[i - 1] = SP})

\* .replace(/\n{3,}/g, '\n\n'): of each maximal run of three or more
\* newlines the first two stay.
MULTI_NEWLINE_REGEX(s) ==
    deleteAt(s, {i \in 3..Len(s) : s[i] = LF /\ s[i - 1] = LF /\ s[i - 2] = LF})

\* .trim(): the text from its first to its last unit that is not white space.
trim(s) ==
    LET kept == {i \in 1..Len(s) : ~IsTrimmed(s[i])} IN
    IF kept = {} THEN <<>>
    ELSE SubSeq(s, CHOOSE i \in kept : \A j \in kept : i <= j,
                   CHOOSE i \in kept : \A j \in kept : i >= j)

\* A sanitizer that collapses the spaces before it removes the invisible
\* characters (steps in the wrong order).
sanitizeTextSpacesFirst(text) ==
    trim(MULTI_NEWLINE_REGEX(
        replaceCR(replaceCRLF(
            removeBidi(removeZeroWidth(removeControl(
                MULTI_SPACE_REGEX(normalizeNFC(text)))))))))

sanitizeText(text) ==
    trim(MULTI_NEWLINE_REGEX(MULTI_SPACE_REGEX(
        replaceCR(replaceCRLF(
            removeBidi(removeZeroWidth(removeControl(
                normalizeNFC(text)))))))))

isEmptyText(text) == Len(sanitizeText(text)) = 0

\* A validator that measures the raw text instead of the sanitized one.
sanitizeAndValidateRawLength(text, minLength) ==
    LET sanitized == sanitizeText(text) IN
    [text |-> sanitized, valid |-> Len(text) >= minLength, length |-> Len(sanitized)]

sanitizeAndValidate(text, minLength) ==
    LET sanitized == sanitizeText(text) IN
    [text |-> sanitized, valid |-> Len(sanitized) >= minLength, length |-> Len(sanitized)]

DEFAULT_MIN_LENGTH == 100

(***************************************************************************)
(* Inputs of the sanitizer                                                 *)
(***************************************************************************)
MaxLen == 4

Alphabet == {NUL, TAB, LF, CR, SP, LATIN_E, COMBINING_ACUTE, ZWSP, RLO}

ShortInputs == UNION {[1..n -> Alphabet] : n \in 0..MaxLen}

Repeat(c, n) == [i \in 1..n |-> c]

\* The literal cases of the sanitizer's tests, on the units above.
LiteralInputs ==
    { <<SP, SP, BOM, NUL, LATIN_E, ZWSP, SP, SP, SP, LATIN_E, CR, LF, LF, LF, LF,
        LATIN_E, UNIT_SEP, SP, SP>>,
      <<LATIN_E, LF, LF, LF, LF, LATIN_E>>,
      <<LATIN_E, LF, LF, LF, LF, LF, LATIN_E>>,
      <<LATIN_E, CR, LF, CR, CR, LATIN_E>>,
      <<LATIN_E, SP, SP, SP, SP, SP, LATIN_E>>,
      <<LATIN_E, LF, ZWSP, LF, RLO, LF, NUL, LF, LATIN_E>>,
      <<LF, LF, LATIN_E, LF, LF>>,
      <<SP, RLO, NUL, LATIN_E, SP, ZWSP, SP, LATIN_E, CR, LF, LF, CR, LATIN_E, TAB,
        LATIN_E, SP>>,
      \* NBSP, VT, FF, DEL, NEL, U+009F, soft hyphen, ZWNJ, ZWJ, LRE, LRI, PDI,
      \* OGHAM SPACE MARK: the ends of the ranges of the three classes and of trim
      <<160, 11, LATIN_E, 12, 127, 133, 159, SP, 173, 8204, 8205, SP, 8234, 8294, 8297,
        LATIN_E, 5760>> }

\* Texts around the default minimum length, some padded with characters the
\* sanitizer removes.
BoundaryInputs ==
    { Repeat(LATIN_E, n) \o Repeat(ZWSP, k) :
        n \in (DEFAULT_MIN_LENGTH - 5)..(DEFAULT_MIN_LENGTH + 1), k \in {0, 1, 10} }

SanInputs == ShortInputs \cup LiteralInputs \cup BoundaryInputs

MinLengths == 0..MaxLen \cup {DEFAULT_MIN_LENGTH}

NoResult == [text |-> <<>>, valid |-> FALSE, length |-> 0]

SanInit ==
    /\ sanPc = "start"
    /\ sanInput \in SanInputs
    /\ sanMinLength = DEFAULT_MIN_LENGTH
    /\ sanOut = <<>>
    /\ sanOut2 = <<>>
    /\ sanResult = NoResult
    /\ sanEmpty = FALSE

\* sanitizeText(text)
CallSanitizeText ==
    /\ sanPc = "start"
    /\ sanOut' = sanitizeText(sanInput)
    /\ sanPc' = "sanitized"
    /\ UNCHANGED <<sanInput, sanMinLength, sanOut2, sanResult, sanEmpty>>
    /\ UNCHANGED sanOthers

\* sanitizeText applied to its own output
CallSanitizeTextAgain ==
    /\ sanPc = "sanitized"
    /\ sanOut2' = sanitizeText(sanOut)
    /\ sanPc' = "resanitized"
    /\ UNCHANGED <<sanInput, sanMinLength, sanOut, sanResult, sanEmpty>>
    /\ UNCHANGED sanOthers

\* sanitizeAndValidate(text, minLength); the default minLength is 100
CallSanitizeAndValidate ==
    /\ sanPc = "start"
    /\ \E m \in MinLengths :
        /\ sanMinLength' = m
        /\ sanResult' = sanitizeAndValidate(sanInput, m)
    /\ sanPc' = "validated"
    /\ UNCHANGED <<sanInput, sanOut, sanOut2, sanEmpty>>
    /\ UNCHANGED sanOthers

\* isEmptyText(text)
CallIsEmptyText ==
    /\ sanPc = "start"
    /\ sanEmpty' = isEmptyText(sanInput)
    /\ sanPc' = "checkedEmpty"
    /\ UNCHANGED <<sanInput, sanMinLength, sanOut, sanOut2, sanResult>>
    /\ UNCHANGED sanOthers

SanNext ==
    \/ CallSanitizeText
    \/ CallSanitizeTextAgain
    \/ CallSanitizeAndValidate
    \/ CallIsEmptyText

(***************************************************************************)
(* TokenCounter                                                            *)
(***************************************************************************)
CHARS_PER_TOKEN == 4

\* Math.ceil(a / b) for integers a >= 0, b > 0
CeilDiv(a, b) == (a + b - 1) \div b

\* Values of the module variable tokenizerPromise: null, a promise still
\* pending, a promise resolved to the tokenizer, a promise resolved to null.
NoPromise == "null"
Pending == "pending"
ResolvedTokenizer == "tokenizer"
ResolvedNull == "unavailable"

Settled == {ResolvedTokenizer, ResolvedNull}

\* The tokenizer of mistral-tokenizer-ts, of which the repository holds the
\* type only (encode: string -> tokens, decode: tokens -> string). A greedy
\* tokenizer over the pieces "a", "b" and "ab" stands for it; a token is
\* the piece it decodes to.  What the library's decode gives for a part of
\* the tokens of a text is not known from the repository.
RECURSIVE encode(_)
encode(text) ==
    IF text = <<>> THEN <<>>
    ELSE IF Len(text) >= 2 /\ text[1] = 97 /\ text[2] = 98
         THEN << <<97, 98>> >> \o encode(SubSeq(text, 3, Len(text)))
         ELSE << <<text[1]>> >> \o encode(Tail(text))

RECURSIVE decode(_)
decode(tokens) ==
    IF tokens = <<>> THEN <<>> ELSE Head(tokens) \o decode(Tail(tokens))

\* text.slice(0, n) for n >= 0
slice0(text, n) == SubSeq(text, 1, Min(n, Len(text)))

\* getTokenizer, line 21: a load is started when no promise is cached.
\* A variant that caches the loaded tokenizer instead of the promise starts
\* a load whenever none has completed yet.
StartsLoadUntilLoaded(promise) == promise \in {NoPromise, Pending}

StartsLoad(promise) == promise = NoPromise

\* getTokenizer, lines 26-28: a failed load resolves the cached promise to
\* null. A variant that clears the cache to retry on the next call.
FailedLoadClearsCache == NoPromise

FailedLoadResolvesTo == ResolvedNull

\* countTokens after the await: tok is what getTokenizer resolved to.
countTokens(tok, text) ==
    IF tok = ResolvedTokenizer
    THEN Len(encode(text))
    ELSE CeilDiv(Len(text), CHARS_PER_TOKEN)

\* An estimate that rounds down instead of up.
countTokensEstimateFloor(text) == Len(text) \div CHARS_PER_TOKEN

countTokensEstimate(text) == CeilDiv(Len(text), CHARS_PER_TOKEN)

\* A limit test that also reports a text of exactly maxTokens tokens.
exceedsTokenLimitInclusive(count, maxTokens) == count >= maxTokens

\* exceedsTokenLimit after its own await: count is what countTokens
\* resolved to.
exceedsTokenLimit(count, maxTokens) == count > maxTokens

\* A truncation that keeps one unit (or token) too many.
truncateToTokenLimitOffByOne(tok, text, maxTokens) ==
    IF tok = ResolvedTokenizer
    THEN LET tokens == encode(text) IN
         IF Len(tokens) <= maxTokens THEN text
         ELSE decode(slice0(tokens, maxTokens + 1))
    ELSE LET maxChars == maxTokens * CHARS_PER_TOKEN IN
         IF Len(text) <= maxChars THEN text
         ELSE slice0(text, maxChars + 1)

\* truncateToTokenLimit after the await (maxTokens >= 0).
truncateToTokenLimit(tok, text, maxTokens) ==
    IF tok = ResolvedTokenizer
    THEN LET tokens == encode(text) IN
         IF Len(tokens) <= maxTokens THEN text
         ELSE decode(slice0(tokens, maxTokens))
    ELSE LET maxChars == maxTokens * CHARS_PER_TOKEN IN
         IF Len(text) <= maxChars THEN text
         ELSE slice0(text, maxChars)

\* maxTokens is a number and need not be whole.  The same two functions
\* for the limit maxTokens + 1/2: the count is compared with it, slice
\* takes the integer part of its end, and maxChars is
\* (maxTokens + 1/2) * CHARS_PER_TOKEN.
exceedsTokenLimitHalf(count, maxTokens) == 2 * count > 2 * maxTokens + 1

truncateToTokenLimitHalf(tok, text, maxTokens) ==
    IF tok = ResolvedTokenizer
    THEN LET tokens == encode(text) IN
         IF 2 * Len(tokens) <= 2 * maxTokens + 1 THEN text
         ELSE decode(slice0(tokens, maxTokens))
    ELSE LET maxChars == maxTokens * CHARS_PER_TOKEN + CHARS_PER_TOKEN \div 2 IN
         IF Len(text) <= maxChars THEN text
         ELSE slice0(text, maxChars)

NCallers == 2
MaxTextLen == 9
MaxTokenLimit == 2

Callers == 1..NCallers

\* The text "abaabaab..." cut to n units.
TokText(n) == [i \in 1..n |-> IF i % 3 = 2 THEN 98 ELSE 97]

TokTexts == {TokText(n) : n \in 0..MaxTextLen}

TokLimits == 0..MaxTokenLimit

\* The arguments of the calls that race for the tokenizer: the empty text and
\* a text of 5 units (2 tokens by the estimate, 3 by the tokenizer), cut to
\* one token.
RaceTexts == {TokText(0), TokText(5)}

RaceLimits == {1}

IdleCaller ==
    [pc |-> "idle", op |-> "none", text |-> <<>>, maxTokens |-> 0, half |-> FALSE,
     startedLoad |-> FALSE, joined |-> FALSE, tok |-> NoPromise, count |-> 0, out |-> <<>>,
     exceeds |-> FALSE]

TokInit ==
    /\ tokenizerPromise = NoPromise
    /\ importsStarted = 0
    /\ initFailed = FALSE
    /\ observed = {}
    /\ callers = [p \in Callers |-> IdleCaller]

\* A caller enters countTokens, exceedsTokenLimit (which enters countTokens
\* at once) or truncateToTokenLimit: getTokenizer runs
\* to its return without yielding (test of the cached promise, start of the
\* load and assignment of its promise are one synchronous block), and the
\* caller awaits the cached promise.  The limit of the call is maxTokens,
\* or maxTokens + 1/2 when half.
TokCall(p, op, text, maxTokens, half) ==
    /\ callers[p].pc = "idle"
    /\ LET starts == StartsLoad(tokenizerPromise) IN
        /\ tokenizerPromise' = IF starts THEN Pending ELSE tokenizerPromise
        /\ importsStarted' = IF starts THEN importsStarted + 1 ELSE importsStarted
        /\ callers' = [callers EXCEPT ![p] =
              [IdleCaller EXCEPT !.pc = "awaiting", !.op = op, !.text = text,
                                 !.maxTokens = maxTokens, !.half = half,
                                 !.startedLoad = starts,
                                 !.joined = (tokenizerPromise = Pending)]]
    /\ UNCHANGED <<initFailed, observed>>
    /\ UNCHANGED tokOthers

\* The dynamic import and getTokenizerForModel succeed: the promise
\* resolves to the tokenizer.
ImportSucceeds ==
    /\ tokenizerPromise = Pending
    /\ tokenizerPromise' = ResolvedTokenizer
    /\ UNCHANGED <<importsStarted, initFailed, observed, callers>>
    /\ UNCHANGED tokOthers

\* The import or getTokenizerForModel throws: the catch returns null.
ImportFails ==
    /\ tokenizerPromise = Pending
    /\ tokenizerPromise' = FailedLoadResolvesTo
    /\ initFailed' = TRUE
    /\ UNCHANGED <<importsStarted, observed, callers>>
    /\ UNCHANGED tokOthers

\* The awaited promise has settled: countTokens or truncateToTokenLimit
\* resumes with its value and runs to its return.  For exceedsTokenLimit
\* it is the inner countTokens that returns; exceedsTokenLimit itself is
\* still suspended at its own await of that call.
TokResume(p) ==
    /\ callers[p].pc = "awaiting"
    /\ tokenizerPromise \in Settled
    /\ LET c == callers[p]
           tok == tokenizerPromise
       IN  /\ callers' = [callers EXCEPT ![p] =
                  [c EXCEPT !.pc = IF c.op = "exceedsTokenLimit"
                                   THEN "counted" ELSE "done",
                            !.tok = tok,
                            !.count = IF c.op \in {"countTokens", "exceedsTokenLimit"}
                                      THEN countTokens(tok, c.text) ELSE 0,
                            !.out = IF c.op # "truncateToTokenLimit" THEN <<>>
                                    ELSE IF c.half
                                    THEN truncateToTokenLimitHalf(tok, c.text, c.maxTokens)
                                    ELSE truncateToTokenLimit(tok, c.text, c.maxTokens)]]
           /\ observed' = observed \cup {tok}
    /\ UNCHANGED <<tokenizerPromise, importsStarted, initFailed>>
    /\ UNCHANGED tokOthers

\* exceedsTokenLimit resumes with the count of the inner countTokens, one
\* turn of the microtask queue after that call returned, and compares it
\* with the limit.
ExceedsResume(p) ==
    /\ callers[p].pc = "counted"
    /\ LET c == callers[p] IN
          callers' = [callers EXCEPT ![p] =
              [c EXCEPT !.pc = "done",
                        !.exceeds = IF c.half
                                    THEN exceedsTokenLimitHalf(c.count, c.maxTokens)
                                    ELSE exceedsTokenLimit(c.count, c.maxTokens)]]
    /\ UNCHANGED <<tokenizerPromise, importsStarted, initFailed, observed>>
    /\ UNCHANGED tokOthers

\* countTokensEstimate is synchronous: it neither reads nor starts the
\* tokenizer load and returns within the caller's own step.
CallCountTokensEstimate(p, text) ==
    /\ callers[p].pc = "idle"
    /\ callers' = [callers EXCEPT ![p] =
          [IdleCaller EXCEPT !.pc = "estimated", !.op = "countTokensEstimate",
                             !.text = text, !.count = countTokensEstimate(text)]]
    /\ UNCHANGED <<tokenizerPromise, importsStarted, initFailed, observed>>
    /\ UNCHANGED tokOthers

\* The caller takes its result and is free to call again.
TokReturn(p) ==
    /\ callers[p].pc \in {"done", "estimated"}
    /\ callers' = [callers EXCEPT ![p] = IdleCaller]
    /\ UNCHANGED <<tokenizerPromise, importsStarted, initFailed, observed>>
    /\ UNCHANGED tokOthers

\* Every caller, every argument.
TokNext ==
    \/ \E p \in Callers, text \in TokTexts : TokCall(p, "countTokens", text, 0, FALSE)
    \/ \E p \in Callers, text \in TokTexts, m \in TokLimits, half \in BOOLEAN :
          TokCall(p, "truncateToTokenLimit", text, m, half)
    \/ \E p \in Callers, text \in TokTexts, m \in TokLimits, half \in BOOLEAN :
          TokCall(p, "exceedsTokenLimit", text, m, half)
    \/ \E p \in Callers, text \in TokTexts : CallCountTokensEstimate(p, text)
    \/ ImportSucceeds
    \/ ImportFails
    \/ \E p \in Callers : TokResume(p)
    \/ \E p \in Callers : ExceedsResume(p)
    \/ \E p \in Callers : TokReturn(p)

\* Concurrent callers racing for the tokenizer, on a few arguments.
TokRaceNext ==
    \/ \E p \in Callers, text \in RaceTexts : TokCall(p, "countTokens", text, 0, FALSE)
    \/ \E p \in Callers, text \in RaceTexts, m \in RaceLimits :
          TokCall(p, "truncateToTokenLimit", text, m, FALSE)
    \/ \E p \in Callers, text \in RaceTexts, m \in RaceLimits :
          TokCall(p, "exceedsTokenLimit", text, m, FALSE)
    \/ \E p \in Callers, text \in RaceTexts : CallCountTokensEstimate(p, text)
    \/ ImportSucceeds
    \/ ImportFails
    \/ \E p \in Callers : TokResume(p)
    \/ \E p \in Callers : ExceedsResume(p)
    \/ \E p \in Callers : TokReturn(p)

\* One caller, every argument.
TokSoloNext ==
    \/ \E text \in TokTexts : TokCall(1, "countTokens", text, 0, FALSE)
    \/ \E text \in TokTexts, m \in TokLimits :
          TokCall(1, "truncateToTokenLimit", text, m, FALSE)
    \/ \E text \in TokTexts, m \in TokLimits :
          TokCall(1, "exceedsTokenLimit", text, m, FALSE)
    \/ \E text \in TokTexts : CallCountTokensEstimate(1, text)
    \/ ImportSucceeds
    \/ ImportFails
    \/ TokResume(1)
    \/ ExceedsResume(1)
    \/ TokReturn(1)

\* One caller, every text, and every limit: whole or between two whole
\* numbers.
TokLimitNext ==
    \/ \E text \in TokTexts, m \in TokLimits, half \in BOOLEAN :
          TokCall(1, "truncateToTokenLimit", text, m, half)
    \/ \E text \in TokTexts, m \in TokLimits, half \in BOOLEAN :
          TokCall(1, "exceedsTokenLimit", text, m, half)
    \/ ImportSucceeds
    \/ ImportFails
    \/ TokResume(1)
    \/ ExceedsResume(1)
    \/ TokReturn(1)

(***************************************************************************)
(* Mistral embeddings                                                      *)
(***************************************************************************)
MAX_BATCH_SIZE == 16
MISTRAL_EMBED_DIMENSION == 1024

\* setTimeout(resolve, 31000), in seconds
INTER_BATCH_DELAY == 31

MaxTexts == 34
MaxLatency == 1

\* The provider's ceiling: 2 requests per minute (period in seconds).
RATE_LIMIT_REQUESTS == 2
RATE_LIMIT_PERIOD == 60

Runs == {1, 2}

\* What mistral.embeddings.create settles with for one request: one
\* embedding per input, fewer embeddings than inputs, embeddings of another
\* length than the model's, or an error: SDKValidationError,
\* HTTPValidationError, a transient failure the client's retries did not
\* get past, or any other rejection (one the client does not retry).
Answers == {"ok", "short", "other_dimension"}

Outcomes == Answers \cup {"sdk_validation", "http_validation", "transient", "rejected"}

\* The embedding the provider computes for a text: a vector of
\* MISTRAL_EMBED_DIMENSION numbers.
EmbeddingOf(text) == [of |-> text, length |-> MISTRAL_EMBED_DIMENSION]

ProviderData(inputs, outcome) ==
    LET n == IF outcome = "short" THEN Len(inputs) - 1 ELSE Len(inputs) IN
    [j \in 1..n |->
        IF outcome = "other_dimension"
        THEN [EmbeddingOf(inputs[j]) EXCEPT !.length = MISTRAL_EMBED_DIMENSION \div 2]
        ELSE EmbeddingOf(inputs[j])]

\* texts.slice(i, j) for 0 <= i
slice(texts, i, j) == SubSeq(texts, i + 1, Min(j, Len(texts)))

\* The client's retryConfig, lines 22-31, in seconds.
\* A variant whose elapsed-time ceiling is out of reach.
retryConfigNoCeiling ==
    [strategy |-> "backoff", initialInterval |-> 1, maxInterval |-> 60,
     exponent |-> 2, maxElapsedTime |-> 100000, retryConnectionErrors |-> TRUE]

retryConfig ==
    [strategy |-> "backoff", initialInterval |-> 1, maxInterval |-> 60,
     exponent |-> 2, maxElapsedTime |-> 300, retryConnectionErrors |-> TRUE]

\* How one HTTP attempt of a request can fail and be tried again: a
\* retryable status of the provider, or a connection error.
AttemptFailures == {"retryable_status", "connection_error"}

\* The backoff strategy the client is configured with: the wait before retry
\* number x + 1 starts at initialInterval, is multiplied by exponent for each
\* retry made, and is capped at maxInterval.
backoffInterval(cfg, x) == Min(cfg.initialInterval * cfg.exponent ^ x, cfg.maxInterval)

\* What the backoff strategy does with a failed attempt, elapsed seconds
\* after the request's first attempt.
retryDecision(cfg, failure, elapsed) ==
    IF failure = "connection_error" /\ ~cfg.retryConnectionErrors THEN "surface"
    ELSE IF elapsed > cfg.maxElapsedTime THEN "surface"
    ELSE "retry"

\* createEmbeddings, lines 62-72: the checks made before the request.
\* A variant without the check for an empty list.
createEmbeddingsRejectsNoEmptyCheck(ready, n) ==
    IF ~ready THEN "not_initialized"
    ELSE IF n > MAX_BATCH_SIZE THEN "too_many"
    ELSE "none"

createEmbeddingsRejects(ready, n) ==
    IF ~ready THEN "not_initialized"
    ELSE IF n > MAX_BATCH_SIZE THEN "too_many"
    ELSE IF n = 0 THEN "empty"
    ELSE "none"

\* createEmbeddings, lines 87-98: the error the caller sees.
createEmbeddingsError(outcome) ==
    IF outcome = "sdk_validation" THEN "Mistral validation failed"
    ELSE IF outcome = "http_validation" THEN "Mistral API validation failed"
    ELSE "provider error"

\* createEmbeddingsBatched, lines 114-116: the loop awaits createEmbeddings
\* outside any try block, so an error thrown there ends the whole call.
\* A variant that catches the error of a batch and goes on to the next
\* batch after the usual delay.
throwFromRunSkipsBatch(rec, message, t) ==
    [rec EXCEPT !.pc = "sleeping", !.waits = rec.waits + 1,
                !.wakeAt = t + INTER_BATCH_DELAY]

throwFromRun(rec, message, t) ==
    [rec EXCEPT !.pc = "failed", !.error = message, !.endedAt = t]

\* createEmbeddings throws at time t.  Called by itself, the call has
\* failed.  Called by createEmbeddingsBatched (line 116) or by
\* verifyConnection (line 134), its promise is rejected and the caller,
\* suspended at its await, learns of it one turn of the microtask queue
\* later.
createEmbeddingsThrows(rec, message, t) ==
    IF rec.kind = "single"
    THEN throwFromRun(rec, message, t)
    ELSE [rec EXCEPT !.pc = "returned", !.thrown = message, !.result = <<>>]

\* createEmbeddings returns data at time t, lines 80-86.
createEmbeddingsReturns(rec, data, t) ==
    IF rec.kind = "single"
    THEN [rec EXCEPT !.pc = "done", !.endedAt = t, !.all = data]
    ELSE [rec EXCEPT !.pc = "returned", !.thrown = "none", !.result = data]

\* createEmbeddings(inputs) called by run r at time t, up to its await: it
\* throws, or the request goes out.
createEmbeddingsCall(ready, rec, r, inputs, reqs, t) ==
    LET err == createEmbeddingsRejects(ready, Len(inputs)) IN
    IF err # "none"
    THEN [run |-> createEmbeddingsThrows(rec, err, t), reqs |-> reqs]
    ELSE [run |-> [rec EXCEPT !.pc = "inflight"],
          reqs |-> Append(reqs, [run |-> r, inputs |-> inputs, sentAt |-> t,
                                 retAt |-> -1, outcome |-> "pending",
                                 waits |-> <<>>, failure |-> "none",
                                 failedAfter |-> -1, retryAt |-> -1])]

\* createEmbeddingsBatched, line 115: the batch of the iteration at i.
\* A variant whose slice ends at MAX_BATCH_SIZE instead of i + MAX_BATCH_SIZE.
batchAtFixedEnd(texts, i) == slice(texts, i, MAX_BATCH_SIZE)

batchAt(texts, i) == slice(texts, i, i + MAX_BATCH_SIZE)

\* createEmbeddingsBatched, line 119: the completed count reported.
\* A variant that does not cap it at the total.
progressCompletedUncapped(i, total) == i + MAX_BATCH_SIZE

progressCompleted(i, total) == Min(i + MAX_BATCH_SIZE, total)

\* createEmbeddingsBatched, line 122: whether a delay follows the batch at i.
\* A variant that delays after every batch.
needsDelayAlways(i, total) == i < total

needsDelay(i, total) == i + MAX_BATCH_SIZE < total

\* createEmbeddingsBatched, line 114: the loop test and, when it passes, the
\* call of createEmbeddings on the next batch, at time t.
\* A variant that tests after the first iteration only (a do-while loop).
batchedLoopAtLeastOnce(ready, rec, r, reqs, t) ==
    IF rec.i < Len(rec.texts) \/ rec.i = 0
    THEN createEmbeddingsCall(ready, rec, r, batchAt(rec.texts, rec.i), reqs, t)
    ELSE [run |-> [rec EXCEPT !.pc = "done", !.endedAt = t], reqs |-> reqs]

batchedLoop(ready, rec, r, reqs, t) ==
    IF rec.i < Len(rec.texts)
    THEN createEmbeddingsCall(ready, rec, r, batchAt(rec.texts, rec.i), reqs, t)
    ELSE [run |-> [rec EXCEPT !.pc = "done", !.endedAt = t], reqs |-> reqs]

\* The input lists: n distinct texts, in ascending or descending order.
TextList(n, order) == [j \in 1..n |-> IF order = "asc" THEN j ELSE n + 1 - j]

\* verifyConnection, lines 134-135: the probe it embeds, and its answer from
\* what createEmbeddings returned.
VerifyProbe == <<"test">>

verifyResult(embeddings) ==
    Len(embeddings) = 1 /\ embeddings[1].length = MISTRAL_EMBED_DIMENSION

\* A call: of createEmbeddings ("single"), of createEmbeddingsBatched
\* ("batched") or of verifyConnection ("verify").  result and thrown are
\* what the createEmbeddings call awaited by the latter two settled with.
NoRun ==
    [pc |-> "off", kind |-> "none", texts |-> <<>>, i |-> 0, all |-> <<>>,
     progress |-> <<>>, waits |-> 0, wakeAt |-> 0, endedAt |-> 0, error |-> "none",
     result |-> <<>>, thrown |-> "none", connected |-> FALSE]

NewRun(kind, texts) == [NoRun EXCEPT !.pc = "ready", !.kind = kind, !.texts = texts]

EmbIdle ==
    /\ mistralReady = TRUE
    /\ now = 0
    /\ requests = <<>>
    /\ runs = [r \in Runs |-> NoRun]

\* One call: of createEmbeddings or of createEmbeddingsBatched on a list of
\* 0..MaxTexts texts, or of verifyConnection.
EmbInit ==
    /\ mistralReady \in BOOLEAN
    /\ now = 0
    /\ requests = <<>>
    /\ \/ \E kind \in {"single", "batched"}, n \in 0..MaxTexts, order \in {"asc", "desc"} :
             runs = [r \in Runs |-> IF r = 1 THEN NewRun(kind, TextList(n, order))
                                    ELSE NoRun]
       \/ runs = [r \in Runs |-> IF r = 1 THEN NewRun("verify", <<>>) ELSE NoRun]

\* The position in the log of the request run r is waiting for.
PendingRequest(r) ==
    CHOOSE k \in 1..Len(requests) :
        requests[k].run = r /\ requests[k].outcome = "pending"

\* A continuation is queued for a caller suspended at its await of
\* createEmbeddings: it runs before any timer or network event, so no time
\* passes until then.
MicrotaskPending == \E r \in Runs : runs[r].pc = "returned"

\* The call is entered and runs to its first await or to its end.
EmbBegin(r) ==
    /\ runs[r].pc = "ready"
    /\ LET res == IF runs[r].kind = "single"
                  THEN createEmbeddingsCall(mistralReady, runs[r], r, runs[r].texts,
                                            requests, now)
                  ELSE IF runs[r].kind = "verify"
                  THEN createEmbeddingsCall(mistralReady, runs[r], r, VerifyProbe,
                                            requests, now)
                  ELSE batchedLoop(mistralReady, runs[r], r, requests, now)
       IN  /\ runs' = [runs EXCEPT ![r] = res.run]
           /\ requests' = res.reqs
    /\ UNCHANGED <<mistralReady, now>>
    /\ UNCHANGED embOthers

\* mistral.embeddings.create settles for the request of run r after d more
\* seconds, and createEmbeddings runs to its end: it returns the embeddings
\* or throws.
ProviderResponds(r, outcome, d) ==
    /\ runs[r].pc = "inflight"
    /\ requests[PendingRequest(r)].retryAt = -1
    /\ MicrotaskPending => d = 0
    /\ now' = now + d
    /\ LET k == PendingRequest(r)
           rec == runs[r]
           data == ProviderData(requests[k].inputs, outcome)
       IN  /\ requests' = [requests EXCEPT ![k].retAt = now', ![k].outcome = outcome]
           /\ runs' = [runs EXCEPT ![r] =
                 IF outcome \in Answers
                 THEN createEmbeddingsReturns(rec, data, now')
                 ELSE createEmbeddingsThrows(rec, createEmbeddingsError(outcome), now')]
    /\ UNCHANGED mistralReady
    /\ UNCHANGED embOthers

\* createEmbeddingsBatched resumes after `await createEmbeddings(batch)`,
\* lines 116-125: on an error it throws; otherwise it appends the
\* embeddings, reports progress, and either starts the inter-batch delay or
\* goes round the loop to its next await or to its end.
BatchedResume(r) ==
    /\ runs[r].pc = "returned"
    /\ runs[r].kind = "batched"
    /\ LET rec == runs[r]
           total == Len(rec.texts)
           reported ==
              [rec EXCEPT !.all = rec.all \o rec.result,
                          !.result = <<>>,
                          !.progress = Append(rec.progress,
                              <<progressCompleted(rec.i, total), total>>)]
       IN  IF rec.thrown # "none"
           THEN /\ runs' = [runs EXCEPT ![r] = throwFromRun(rec, rec.thrown, now)]
                /\ UNCHANGED requests
           ELSE IF needsDelay(rec.i, total)
           THEN /\ runs' = [runs EXCEPT ![r] =
                      [reported EXCEPT !.pc = "sleeping",
                                       !.waits = rec.waits + 1,
                                       !.wakeAt = now + INTER_BATCH_DELAY]]
                /\ UNCHANGED requests
           ELSE LET res == batchedLoop(mistralReady,
                               [reported EXCEPT !.i = rec.i + MAX_BATCH_SIZE],
                               r, requests, now)
                IN  /\ runs' = [runs EXCEPT ![r] = res.run]
                    /\ requests' = res.reqs
    /\ UNCHANGED <<mistralReady, now>>
    /\ UNCHANGED embOthers

\* verifyConnection resumes after `await createEmbeddings(['test'])`, lines
\* 134-138: it answers whether one embedding of the model's length came
\* back, and false when createEmbeddings threw.
VerifyResume(r) ==
    /\ runs[r].pc = "returned"
    /\ runs[r].kind = "verify"
    /\ runs' = [runs EXCEPT ![r] =
          [runs[r] EXCEPT !.pc = "done", !.endedAt = now,
                          !.connected = IF runs[r].thrown # "none" THEN FALSE
                                        ELSE verifyResult(runs[r].result)]]
    /\ UNCHANGED <<mistralReady, now, requests>>
    /\ UNCHANGED embOthers

\* The inter-batch timer of run r fires (not before its time): i advances
\* and the loop goes on with the next batch.
TimerFires(r) ==
    /\ runs[r].pc = "sleeping"
    /\ MicrotaskPending => runs[r].wakeAt <= now
    /\ now' = Max(now, runs[r].wakeAt)
    /\ LET res == batchedLoop(mistralReady,
                              [runs[r] EXCEPT !.i = runs[r].i + MAX_BATCH_SIZE],
                              r, requests, now')
       IN  /\ runs' = [runs EXCEPT ![r] = res.run]
           /\ requests' = res.reqs
    /\ UNCHANGED mistralReady
    /\ UNCHANGED embOthers

\* An HTTP attempt of the request run r is waiting for fails, d seconds
\* after it went out, in a way the client's retry strategy covers. The
\* strategy either schedules the next attempt, or gives up: then
\* mistral.embeddings.create rejects and createEmbeddings rethrows (line 98).
AttemptFails(r, failure, d) ==
    /\ runs[r].pc = "inflight"
    /\ requests[PendingRequest(r)].retryAt = -1
    /\ MicrotaskPending => d = 0
    /\ now' = now + d
    /\ LET k == PendingRequest(r)
           q == requests[k]
           elapsed == now' - q.sentAt
           x == Len(q.waits)
       IN  IF retryDecision(retryConfig, failure, elapsed) = "retry"
           THEN /\ requests' = [requests EXCEPT ![k] =
                      [q EXCEPT !.waits = Append(q.waits, backoffInterval(retryConfig, x)),
                                !.failure = failure,
                                !.failedAfter = elapsed,
                                !.retryAt = now' + backoffInterval(retryConfig, x)]]
                /\ UNCHANGED runs
           ELSE /\ requests' = [requests EXCEPT ![k] =
                      [q EXCEPT !.retAt = now', !.outcome = "transient"]]
                /\ runs' = [runs EXCEPT ![r] =
                      createEmbeddingsThrows(runs[r], createEmbeddingsError("transient"),
                                             now')]
    /\ UNCHANGED mistralReady
    /\ UNCHANGED embOthers

\* The backoff wait of the request of run r is over (not before its time):
\* the next attempt goes out.
RetryFires(r) ==
    /\ runs[r].pc = "inflight"
    /\ requests[PendingRequest(r)].retryAt # -1
    /\ MicrotaskPending => requests[PendingRequest(r)].retryAt <= now
    /\ now' = Max(now, requests[PendingRequest(r)].retryAt)
    /\ requests' = [requests EXCEPT ![PendingRequest(r)].retryAt = -1]
    /\ UNCHANGED <<mistralReady, runs>>
    /\ UNCHANGED embOthers

\* What mistral.embeddings.create settles with at the attempt that got the
\* answer: a result, a validation error, or a rejection that is not
\* retried.  A transient failure is surfaced by AttemptFails.
FinalOutcomes == Outcomes \ {"transient"}

\* One call of createEmbeddings with the client's retries made explicit.
EmbRetryNext ==
    \/ \E r \in Runs : EmbBegin(r)
    \/ \E r \in Runs, outcome \in FinalOutcomes, d \in 0..MaxLatency :
          ProviderResponds(r, outcome, d)
    \/ \E r \in Runs, failure \in AttemptFailures, d \in 0..MaxLatency :
          AttemptFails(r, failure, d)
    \/ \E r \in Runs : RetryFires(r)
    \/ \E r \in Runs : BatchedResume(r)
    \/ \E r \in Runs : VerifyResume(r)

EmbNext ==
    \/ \E r \in Runs : EmbBegin(r)
    \/ \E r \in Runs, outcome \in Outcomes, d \in 0..MaxLatency :
          ProviderResponds(r, outcome, d)
    \/ \E r \in Runs : BatchedResume(r)
    \/ \E r \in Runs : VerifyResume(r)
    \/ \E r \in Runs : TimerFires(r)

(***************************************************************************)
(* Ingestion orchestrator: documents, chunk rows and vector records        *)
(*                                                                         *)
(* The relational tables are those of the schema; the sequence of an       *)
(* ingestion and of a deletion is the one the design lays down.  Every     *)
(* action is one step between two suspension points of a call.             *)
(***************************************************************************)
\* Document quota: 50 per user.
DOCUMENT_QUOTA == 50

NJobs == 3
MaxChunks == 2

Jobs == 1..NJobs

\* The numbers of chunks a document is cut into: one, or the most.
ChunkCounts == {1, MaxChunks}

\* documentStatusEnum
documentStatusEnum == {"uploading", "processing", "ready", "failed"}

\* documents.status: .default('uploading').  A variant whose default is
\* 'processing'.
documentStatusDefaultProcessing == "processing"

documentStatusDefault == "uploading"

\* documents.error_message is nullable and has no default.
NullMessage == "null"

\* A new row of the documents table, its columns at their defaults.
NewDocument(attemptsSoFar) ==
    [status |-> documentStatusDefault, chunkCount |-> 0,
     errorMessage |-> NullMessage, attempts |-> attemptsSoFar, keyLog |-> <<>>]

\* The deterministic identifier of a chunk: `{documentId}_chunk_{position}`.
\* A variant that leaves the document out.
pineconeIdPositionOnly(documentId, position) == <<"chunk", position>>

pineconeId(documentId, position) == <<documentId, "chunk", position>>

\* The rows of the chunks table an attempt stages for n chunks: positions
\* 0..n-1, each with its key.
ChunkRows(documentId, n, attempt) ==
    {[documentId |-> documentId, position |-> p,
      pineconeId |-> pineconeId(documentId, p), attempt |-> attempt] : p \in 0..(n - 1)}

\* The vector records of the same chunks: key and metadata.
VectorRecords(documentId, n, attempt) ==
    {[key |-> pineconeId(documentId, p), document_id |-> documentId,
      chunk_position |-> p, attempt |-> attempt] : p \in 0..(n - 1)}

ChunksOf(rows, documentId) == {c \in rows : c.documentId = documentId}

VectorsOf(vecs, documentId) == {v \in vecs : v.document_id = documentId}

\* chunks.pinecone_id: .unique().  Would the table, with the rows of the
\* document replaced by the staged ones, hold two rows under one key?
violatesUnique(rows, documentId, staged) ==
    LET kept == rows \ ChunksOf(rows, documentId) IN
    \/ \E c \in kept, s \in staged : c.pineconeId = s.pineconeId
    \/ \E s1 \in staged, s2 \in staged : s1 # s2 /\ s1.pineconeId = s2.pineconeId

\* The relational transaction of an attempt: the document's rows are
\* replaced by the staged ones.  A variant that replaces only the rows
\* under the staged keys and keeps the document's other rows.
writeChunksKeepsOthers(rows, documentId, staged) ==
    {c \in rows : \A r \in staged : r.pineconeId # c.pineconeId} \cup staged

writeChunks(rows, documentId, staged) ==
    (rows \ ChunksOf(rows, documentId)) \cup staged

\* The rollback of that transaction.  A variant that leaves the staged rows
\* in the table.
rollbackChunksKeepsStaged(rows, documentId, previous) == rows

rollbackChunks(rows, documentId, previous) ==
    (rows \ ChunksOf(rows, documentId)) \cup previous

\* Vector store upsert: a record replaces the one under the same key.
upsert(vecs, records) ==
    {v \in vecs : \A r \in records : r.key # v.key} \cup records

\* Vector store deleteMany({filter: {document_id}}).
deleteMany(vecs, documentId) == {v \in vecs : v.document_id # documentId}

\* chunks.document_id: references documents.id, onDelete 'cascade'.  A
\* variant without the cascade.
cascadeDeleteNone(rows, documentId) == rows

cascadeDelete(rows, documentId) == {c \in rows : c.documentId # documentId}

\* The quota check: a document may be added while the owner holds fewer
\* than the quota.  A variant that also admits one at the quota.
quotaAllowsAtLimit(used) == used <= DOCUMENT_QUOTA

quotaAllows(used) == used < DOCUMENT_QUOTA

\* The stages of an ingestion that run before anything is written, in order.
StageAfter(stage) ==
    IF stage = "extract" THEN "chunk"
    ELSE IF stage = "chunk" THEN "embed"
    ELSE "write"

\* The message a failed stage leaves on the document.
StageError(stage) ==
    IF stage = "extract" THEN "ExtractionError"
    ELSE IF stage = "chunk" THEN "CapacityError"
    ELSE IF stage = "embed" THEN "ExternalServiceError"
    ELSE IF stage = "write" THEN "chunk rows could not be written"
    ELSE IF stage = "upsert" THEN "vector upsert failed"
    ELSE "ingestion cancelled"

NoJob ==
    [op |-> "none", doc |-> 0, pc |-> "off", n |-> 0, attempt |-> 0,
     result |-> "none", previous |-> {},
     before |-> [rows |-> {}, vecs |-> {}, chunkCount |-> 0],
     failedAt |-> "none", released |-> 0]

NewJob(op, doc) == [NoJob EXCEPT !.op = op, !.doc = doc, !.pc = "new"]

\* The jobs that are between their first and their last step on a document.
Busy(d) ==
    \E j \in Jobs : jobs[j].doc = d /\ jobs[j].pc \notin {"off", "new", "done"}

OrcIdle ==
    /\ documents = <<>>
    /\ chunks = {}
    /\ vectors = {}
    /\ quotaUsed = 0
    /\ jobs = [j \in Jobs |-> NoJob]

\* A document that was ingested before, with one chunk.
ReadyDocument(d) ==
    [NewDocument(1) EXCEPT !.status = "ready", !.chunkCount = 1,
                           !.keyLog = <<{pineconeId(d, 0)}>>]

\* The owner holds `held` ready documents, numbered 1..held; job j, if it
\* adds a document, adds number held + j.
OrcState(held, ops, targets) ==
    /\ documents = [d \in 1..held |-> ReadyDocument(d)]
    /\ chunks = UNION {ChunkRows(d, 1, 1) : d \in 1..held}
    /\ vectors = UNION {VectorRecords(d, 1, 1) : d \in 1..held}
    /\ quotaUsed = held
    /\ jobs = [j \in Jobs |->
                 NewJob(ops[j], IF ops[j] = "ingest" THEN held + j ELSE targets[j])]

\* The document's row after a failure of the attempt at the given stage.
\* A variant that writes no message, and one that also resets the chunk
\* count.
failedDocumentNoMessage(doc, stage) == [doc EXCEPT !.status = "failed"]

failedDocumentResetsCount(doc, stage) ==
    [doc EXCEPT !.status = "failed", !.errorMessage = StageError(stage),
                !.chunkCount = 0]

failedDocument(doc, stage) ==
    [doc EXCEPT !.status = "failed", !.errorMessage = StageError(stage)]

\* ingest, step (a): the quota check and the reservation, one atomic step at
\* the store; on success the document row is inserted.
Submit(j) ==
    /\ jobs[j].op = "ingest"
    /\ jobs[j].pc = "new"
    /\ IF quotaAllows(quotaUsed)
       THEN /\ quotaUsed' = quotaUsed + 1
            /\ documents' = [d \in DOMAIN documents \cup {jobs[j].doc} |->
                               IF d = jobs[j].doc THEN NewDocument(0) ELSE documents[d]]
            /\ jobs' = [jobs EXCEPT ![j].pc = "reserved"]
       ELSE /\ jobs' = [jobs EXCEPT ![j].pc = "done", ![j].result = "QuotaExceeded"]
            /\ UNCHANGED <<quotaUsed, documents>>
    /\ UNCHANGED <<chunks, vectors>>
    /\ UNCHANGED orcOthers

\* Step (b): the document enters processing, from uploading for a new
\* document and from ready or failed for a re-ingestion.
BeginProcessing(j) ==
    /\ \/ jobs[j].op = "ingest" /\ jobs[j].pc = "reserved"
       \/ /\ jobs[j].op = "reingest"
          /\ jobs[j].pc = "new"
          /\ jobs[j].doc \in DOMAIN documents
          /\ documents[jobs[j].doc].status \in {"ready", "failed"}
          /\ ~Busy(jobs[j].doc)
    /\ LET d == jobs[j].doc
           a == documents[d].attempts + 1
       IN  /\ documents' = [documents EXCEPT ![d].status = "processing",
                                             ![d].attempts = a]
           /\ jobs' = [jobs EXCEPT ![j].pc = "extract", ![j].attempt = a,
                          ![j].before = [rows |-> ChunksOf(chunks, d),
                                         vecs |-> VectorsOf(vectors, d),
                                         chunkCount |-> documents[d].chunkCount]]
    /\ UNCHANGED <<chunks, vectors, quotaUsed>>
    /\ UNCHANGED orcOthers

\* Steps (c), (d), (e): extraction, chunking (into n chunks) or embedding
\* succeeds.
StageSucceeds(j, n) ==
    /\ jobs[j].pc \in {"extract", "chunk", "embed"}
    /\ jobs' = [jobs EXCEPT ![j].pc = StageAfter(jobs[j].pc),
                            ![j].n = IF jobs[j].pc = "chunk" THEN n ELSE jobs[j].n]
    /\ UNCHANGED <<documents, chunks, vectors, quotaUsed>>
    /\ UNCHANGED orcOthers

\* Extraction, chunking or embedding fails: the document is failed with the
\* stage's message, and nothing is written to either store.
StageFails(j) ==
    /\ jobs[j].pc \in {"extract", "chunk", "embed"}
    /\ documents' = [documents EXCEPT ![jobs[j].doc] =
                        failedDocument(documents[jobs[j].doc], jobs[j].pc)]
    /\ jobs' = [jobs EXCEPT ![j].pc = "done", ![j].result = "failed",
                            ![j].failedAt = jobs[j].pc]
    /\ UNCHANGED <<chunks, vectors, quotaUsed>>
    /\ UNCHANGED orcOthers

\* Step (f), first half: the chunk rows are written in one relational
\* transaction; a violated constraint fails the attempt.
WriteChunks(j) ==
    /\ jobs[j].pc = "write"
    /\ LET d == jobs[j].doc
           staged == ChunkRows(d, jobs[j].n, jobs[j].attempt)
       IN  IF violatesUnique(chunks, d, staged)
           THEN /\ documents' = [documents EXCEPT ![d] =
                                    failedDocument(documents[d], "write")]
                /\ jobs' = [jobs EXCEPT ![j].pc = "done", ![j].result = "failed",
                                        ![j].failedAt = "write"]
                /\ UNCHANGED chunks
           ELSE /\ chunks' = writeChunks(chunks, d, staged)
                /\ jobs' = [jobs EXCEPT ![j].pc = "upsert",
                                        ![j].previous = ChunksOf(chunks, d)]
                /\ UNCHANGED documents
    /\ UNCHANGED <<vectors, quotaUsed>>
    /\ UNCHANGED orcOthers

\* Step (f), second half: the vectors are upserted.  On success the
\* document becomes ready and records its chunk count; on failure it becomes
\* failed and the chunk rows of the attempt are rolled back.
UpsertVectors(j, ok) ==
    /\ jobs[j].pc = "upsert"
    /\ LET d == jobs[j].doc
           records == VectorRecords(d, jobs[j].n, jobs[j].attempt)
       IN  IF ok
           THEN /\ vectors' = upsert(vectors, records)
                /\ documents' = [documents EXCEPT
                      ![d].status = "ready",
                      ![d].chunkCount = jobs[j].n,
                      ![d].keyLog = Append(documents[d].keyLog,
                                           {r.key : r \in records})]
                /\ jobs' = [jobs EXCEPT ![j].pc = "done", ![j].result = "ready"]
                /\ UNCHANGED chunks
           ELSE /\ chunks' = rollbackChunks(chunks, d, jobs[j].previous)
                /\ documents' = [documents EXCEPT ![d] =
                                    failedDocument(documents[d], "upsert")]
                /\ jobs' = [jobs EXCEPT ![j].pc = "done", ![j].result = "failed",
                                        ![j].failedAt = "upsert"]
                /\ UNCHANGED vectors
    /\ UNCHANGED quotaUsed
    /\ UNCHANGED orcOthers

\* The in-flight ingestion is cancelled at a suspension point: no further
\* stage runs, rows already written are rolled back, and the document is
\* failed with a message.
Cancel(j) ==
    /\ jobs[j].pc \in {"extract", "chunk", "embed", "write", "upsert"}
    /\ LET d == jobs[j].doc
       IN  /\ documents' = [documents EXCEPT ![d] =
                               failedDocument(documents[d], "cancel")]
           /\ chunks' = IF jobs[j].pc = "upsert"
                        THEN rollbackChunks(chunks, d, jobs[j].previous)
                        ELSE chunks
    /\ jobs' = [jobs EXCEPT ![j].pc = "done", ![j].result = "failed",
                            ![j].failedAt = "cancel"]
    /\ UNCHANGED <<vectors, quotaUsed>>
    /\ UNCHANGED orcOthers

\* delete, first step: the document's vectors are removed by the
\* document-scoped filter.
DeleteVectors(j) ==
    /\ jobs[j].op = "delete"
    /\ jobs[j].pc = "new"
    /\ jobs[j].doc \in DOMAIN documents
    /\ ~Busy(jobs[j].doc)
    /\ vectors' = deleteMany(vectors, jobs[j].doc)
    /\ jobs' = [jobs EXCEPT ![j].pc = "rows",
                   ![j].before = [rows |-> ChunksOf(chunks, jobs[j].doc),
                                  vecs |-> VectorsOf(vectors, jobs[j].doc),
                                  chunkCount |-> documents[jobs[j].doc].chunkCount]]
    /\ UNCHANGED <<documents, chunks, quotaUsed>>
    /\ UNCHANGED orcOthers

\* delete, second step: the document row is deleted and its chunk rows go
\* with it.
DeleteRows(j) ==
    /\ jobs[j].pc = "rows"
    /\ documents' = [d \in DOMAIN documents \ {jobs[j].doc} |-> documents[d]]
    /\ chunks' = cascadeDelete(chunks, jobs[j].doc)
    /\ jobs' = [jobs EXCEPT ![j].pc = "release"]
    /\ UNCHANGED <<vectors, quotaUsed>>
    /\ UNCHANGED orcOthers

\* delete, last step: the owner's quota is released.
ReleaseQuota(j) ==
    /\ jobs[j].pc = "release"
    /\ quotaUsed' = quotaUsed - 1
    /\ jobs' = [jobs EXCEPT ![j].pc = "done", ![j].result = "deleted",
                            ![j].released = jobs[j].released + 1]
    /\ UNCHANGED <<documents, chunks, vectors>>
    /\ UNCHANGED orcOthers

JobStep(j) ==
    \/ Submit(j)
    \/ BeginProcessing(j)
    \/ \E n \in ChunkCounts : StageSucceeds(j, n)
    \/ StageFails(j)
    \/ WriteChunks(j)
    \/ \E ok \in BOOLEAN : UpsertVectors(j, ok)
    \/ Cancel(j)
    \/ DeleteVectors(j)
    \/ DeleteRows(j)
    \/ ReleaseQuota(j)

OrcNext ==
    \/ \E j \in Jobs : Submit(j)
    \/ \E j \in Jobs : BeginProcessing(j)
    \/ \E j \in Jobs, n \in ChunkCounts : StageSucceeds(j, n)
    \/ \E j \in Jobs : StageFails(j)
    \/ \E j \in Jobs : WriteChunks(j)
    \/ \E j \in Jobs, ok \in BOOLEAN : UpsertVectors(j, ok)
    \/ \E j \in Jobs : Cancel(j)
    \/ \E j \in Jobs : DeleteVectors(j)
    \/ \E j \in Jobs : DeleteRows(j)
    \/ \E j \in Jobs : ReleaseQuota(j)

\* Submissions and deletions of one owner who holds nearly the quota: every
\* job submits a new document or deletes document 1.
OrcQuotaInit ==
    \E held \in (DOCUMENT_QUOTA - 1)..DOCUMENT_QUOTA,
       ops \in [Jobs -> {"ingest", "delete"}] :
        OrcState(held, ops, [j \in Jobs |-> 1])

\* Ingestion, re-ingestion and deletion of document 1: job 1 submits a new
\* document (document 1, when the owner holds none), jobs 2..k re-ingest
\* document 1 and the jobs after k delete it.
OrcIngestInit ==
    \E held \in 0..1, k \in Jobs :
        OrcState(held,
                 [j \in Jobs |-> IF j = 1 THEN "ingest"
                                 ELSE IF j <= k THEN "reingest" ELSE "delete"],
                 [j \in Jobs |-> 1])

(***************************************************************************)
(* Upload validation and the URL guard                                     *)
(*                                                                         *)
(* URLs and addresses are TLA+ strings; charAt, startsWith and the like    *)
(* are the String methods of the source.                                   *)
(***************************************************************************)
charAt(s, i) == SubSeq(s, i, i)

\* s.slice(i) for a 1-based i
sliceFrom(s, i) == SubSeq(s, i, Len(s))

startsWith(s, prefix) == Len(s) >= Len(prefix) /\ SubSeq(s, 1, Len(prefix)) = prefix

endsWith(s, suffix) ==
    Len(s) >= Len(suffix) /\ SubSeq(s, Len(s) - Len(suffix) + 1, Len(s)) = suffix

\* The element of a singleton set: only({f(v) : v \in {e}}) is f(e), with e
\* evaluated once.
only(S) == CHOOSE x \in S : TRUE

\* The first position from 'from' on that holds one of the characters, or 0.
indexOfAny(s, chars, from) ==
    only({IF hits = {} THEN 0 ELSE CHOOSE i \in hits : \A j \in hits : i <= j :
            hits \in {{i \in from..Len(s) : charAt(s, i) \in chars}}})

\* The last position that holds one of the characters, or 0.
lastIndexOfAny(s, chars) ==
    only({IF hits = {} THEN 0 ELSE CHOOSE i \in hits : \A j \in hits : i >= j :
            hits \in {{i \in 1..Len(s) : charAt(s, i) \in chars}}})

UpperAlpha ==
    {"A", "B", "C", "D", "E", "F", "G", "H", "I", "J", "K", "L", "M",
     "N", "O", "P", "Q", "R", "S", "T", "U", "V", "W", "X", "Y", "Z"}

LowerAlpha ==
    {"a", "b", "c", "d", "e", "f", "g", "h", "i", "j", "k", "l", "m",
     "n", "o", "p", "q", "r", "s", "t", "u", "v", "w", "x", "y", "z"}

Digits == {"0", "1", "2", "3", "4", "5", "6", "7", "8", "9"}

lowerChar(c) ==
    CASE c = "A" -> "a" [] c = "B" -> "b" [] c = "C" -> "c" [] c = "D" -> "d"
      [] c = "E" -> "e" [] c = "F" -> "f" [] c = "G" -> "g" [] c = "H" -> "h"
      [] c = "I" -> "i" [] c = "J" -> "j" [] c = "K" -> "k" [] c = "L" -> "l"
      [] c = "M" -> "m" [] c = "N" -> "n" [] c = "O" -> "o" [] c = "P" -> "p"
      [] c = "Q" -> "q" [] c = "R" -> "r" [] c = "S" -> "s" [] c = "T" -> "t"
      [] c = "U" -> "u" [] c = "V" -> "v" [] c = "W" -> "w" [] c = "X" -> "x"
      [] c = "Y" -> "y" [] c = "Z" -> "z" [] OTHER -> c

RECURSIVE lowerFrom(_, _)
lowerFrom(s, i) ==
    IF i > Len(s) THEN "" ELSE lowerChar(charAt(s, i)) \o lowerFrom(s, i + 1)

toLowerCase(s) == only({lowerFrom(v, 1) : v \in {s}})

digitValue(c) ==
    CASE c = "0" -> 0 [] c = "1" -> 1 [] c = "2" -> 2 [] c = "3" -> 3
      [] c = "4" -> 4 [] c = "5" -> 5 [] c = "6" -> 6 [] c = "7" -> 7
      [] c = "8" -> 8 [] c = "9" -> 9

digitChar(d) ==
    CASE d = 0 -> "0" [] d = 1 -> "1" [] d = 2 -> "2" [] d = 3 -> "3"
      [] d = 4 -> "4" [] d = 5 -> "5" [] d = 6 -> "6" [] d = 7 -> "7"
      [] d = 8 -> "8" [] d = 9 -> "9"

isDecimal(s) == s # "" /\ \A i \in 1..Len(s) : charAt(s, i) \in Digits

\* The value of the first n characters of a string of decimal digits.
RECURSIVE decimalPrefix(_, _)
decimalPrefix(s, n) ==
    IF n = 0 THEN 0 ELSE 10 * decimalPrefix(s, n - 1) + digitValue(charAt(s, n))

\* The value of a string of decimal digits.
decimalValue(s) == only({decimalPrefix(v, Len(v)) : v \in {s}})

\* The decimal digits of n >= 0.
RECURSIVE decimalString(_)
decimalString(n) ==
    IF n < 10 THEN digitChar(n) ELSE decimalString(n \div 10) \o digitChar(n % 10)

\* ---- new URL(urlString): the URL parser of the runtime, without a base URL ----
\* The parser is the one Node.js 18 to 22 run (Ada), which follows the
\* WHATWG URL Standard but for a few paths; the places are marked.
\* The strings of the model are made of tab, line feed, form feed, carriage
\* return, the printable ASCII characters and the characters U+00A0 to
\* U+00FF; the parser has no value on any other character.  Domain names
\* are processed as code points (numbers), which percent-escapes and
\* Punycode labels can spell beyond the characters above: 'idnaStatus'
\* names the code points it covers and has no value elsewhere.
\* The grave accent, written through a pair of quotes.
Grave == SubSeq("`'", 1, 1)

AsciiBelowGrave ==
    " !\"#$%&'()*+,-./0123456789:;<=>?@ABCDEFGHIJKLMNOPQRSTUVWXYZ[\\]^_"

AsciiAboveGrave == "abcdefghijklmnopqrstuvwxyz{|}~"

\* U+00A0 to U+00FF
Latin1 ==
    " ¡¢£¤¥¦§¨©ª«¬­®¯°±²³´µ¶·¸¹º»¼½¾¿ÀÁÂÃÄÅÆÇÈÉÊËÌÍÎÏ"
        \o "ÐÑÒÓÔÕÖ×ØÙÚÛÜÝÞßàáâãäåæçèéêëìíîïðñòóôõö÷øùúûüýþÿ"

C0Controls == {"\t", "\n", "\f", "\r"}

TabOrNewline == {"\t", "\n", "\r"}

AsciiChars ==
    C0Controls \cup {Grave}
        \cup {charAt(AsciiBelowGrave, i) : i \in 1..Len(AsciiBelowGrave)}
        \cup {charAt(AsciiAboveGrave, i) : i \in 1..Len(AsciiAboveGrave)}

Latin1Chars == {charAt(Latin1, i) : i \in 1..Len(Latin1)}

\* The code point of each character of the alphabet.
CharCode ==
    [c \in AsciiChars \cup Latin1Chars |->
        CASE c = "\t" -> 9 [] c = "\n" -> 10 [] c = "\f" -> 12 [] c = "\r" -> 13
          [] c = Grave -> 96
          [] indexOfAny(AsciiBelowGrave, {c}, 1) # 0 -> 31 + indexOfAny(AsciiBelowGrave, {c}, 1)
          [] indexOfAny(AsciiAboveGrave, {c}, 1) # 0 -> 96 + indexOfAny(AsciiAboveGrave, {c}, 1)
          [] OTHER -> 159 + indexOfAny(Latin1, {c}, 1)]

\* c.codePointAt(0)
charCode(c) == CharCode[c]

CharCodes == {9, 10, 12, 13} \cup 32..126 \cup 160..255

\* String.fromCodePoint(n) for n in CharCodes
fromCharCode(n) ==
    CASE n = 9 -> "\t" [] n = 10 -> "\n" [] n = 12 -> "\f" [] n = 13 -> "\r"
      [] n \in 32..95 -> charAt(AsciiBelowGrave, n - 31)
      [] n = 96 -> Grave
      [] n \in 97..126 -> charAt(AsciiAboveGrave, n - 96)
      [] n \in 160..255 -> charAt(Latin1, n - 159)

HexUpper == "0123456789ABCDEF"

HexLower == "0123456789abcdef"

isHexDigit(c) == c # "" /\ indexOfAny(HexLower, {lowerChar(c)}, 1) # 0

hexDigitValue(c) == indexOfAny(HexLower, {lowerChar(c)}, 1) - 1

\* The percent-encode sets, on the ASCII characters of the alphabet; each
\* set also holds every code point above U+007E.  The path set is the one
\* of the runtime: it does not hold "^".
FragmentSet == C0Controls \cup {" ", "\"", "<", ">", Grave}

QuerySet == C0Controls \cup {" ", "\"", "#", "<", ">"}

SpecialQuerySet == QuerySet \cup {"'"}

PathSet == QuerySet \cup {"?", Grave, "{", "}"}

UserinfoSet == PathSet \cup {"/", ":", ";", "=", "@", "[", "\\", "]", "^", "|"}

\* The character is in the percent-encode set.
inSet(c, set) == IF c \in AsciiChars THEN c \in set ELSE charCode(c) > 126

\* The bytes of the UTF-8 encoding of a code point up to U+00FF.
utf8Bytes(code) ==
    IF code < 128 THEN <<code>> ELSE <<192 + (code \div 64), 128 + (code % 64)>>

percentEncodeByte(byte) ==
    "%" \o charAt(HexUpper, (byte \div 16) + 1) \o charAt(HexUpper, (byte % 16) + 1)

\* The percent-encoded bytes of the UTF-8 encoding of c.
percentEncodeChar(c) ==
    only({IF Len(bytes) = 1 THEN percentEncodeByte(bytes[1])
          ELSE percentEncodeByte(bytes[1]) \o percentEncodeByte(bytes[2]) :
            bytes \in {utf8Bytes(charCode(c))}})

RECURSIVE encodeFrom(_, _, _)
encodeFrom(s, set, i) ==
    IF i > Len(s) THEN ""
    ELSE (IF inSet(charAt(s, i), set) THEN percentEncodeChar(charAt(s, i)) ELSE charAt(s, i))
            \o encodeFrom(s, set, i + 1)

\* Every character of s that is in the set, percent-encoded.
percentEncode(s, set) == only({encodeFrom(v, set, 1) : v \in {s}})

\* A percent-encoded byte starts at position i of s.
isEscape(s, i) ==
    /\ charAt(s, i) = "%"
    /\ i + 2 <= Len(s)
    /\ isHexDigit(charAt(s, i + 1))
    /\ isHexDigit(charAt(s, i + 2))

escapedByte(s, i) == 16 * hexDigitValue(charAt(s, i + 1)) + hexDigitValue(charAt(s, i + 2))

RECURSIVE decodeFrom(_, _)
decodeFrom(s, i) ==
    IF i > Len(s) THEN <<>>
    ELSE IF isEscape(s, i) THEN <<escapedByte(s, i)>> \o decodeFrom(s, i + 3)
    ELSE utf8Bytes(charCode(charAt(s, i))) \o decodeFrom(s, i + 1)

\* The percent-decoding of the UTF-8 encoding of s: a sequence of bytes.
percentDecode(s) == only({decodeFrom(v, 1) : v \in {s}})

\* s without its leading C0 controls and spaces.
trimStart(s) ==
    only({IF keep = {} THEN ""
          ELSE sliceFrom(s, CHOOSE i \in keep : \A j \in keep : i <= j) :
            keep \in {{i \in 1..Len(s) : charAt(s, i) \notin C0Controls \cup {" "}}}})

\* s without its trailing C0 controls and spaces.
trimEnd(s) ==
    only({IF keep = {} THEN ""
          ELSE SubSeq(s, 1, CHOOSE i \in keep : \A j \in keep : i >= j) :
            keep \in {{i \in 1..Len(s) : charAt(s, i) \notin C0Controls \cup {" "}}}})

RECURSIVE keepFrom(_, _, _)
keepFrom(s, drop, i) ==
    IF i > Len(s) THEN ""
    ELSE (IF charAt(s, i) \in drop THEN "" ELSE charAt(s, i)) \o keepFrom(s, drop, i + 1)

\* s without its tabs and newlines.
removeTabOrNewline(s) == only({keepFrom(v, TabOrNewline, 1) : v \in {s}})

SpecialSchemes == {"http", "https", "ftp", "ws", "wss", "file"}

\* The default port of a special scheme, or -1.
defaultPort(scheme) ==
    CASE scheme \in {"http", "ws"} -> 80
      [] scheme \in {"https", "wss"} -> 443
      [] scheme = "ftp" -> 21
      [] OTHER -> -1

SchemeChars == UpperAlpha \cup LowerAlpha \cup Digits \cup {"+", "-", "."}

\* The position of the colon that ends the scheme, or 0 when the string does
\* not start with a scheme.
schemeEnd(s) ==
    only({IF /\ colon >= 2
             /\ charAt(s, 1) \in UpperAlpha \cup LowerAlpha
             /\ \A i \in 2..(colon - 1) : charAt(s, i) \in SchemeChars
          THEN colon ELSE 0 : colon \in {indexOfAny(s, {":"}, 1)}})

\* The pieces of s between the separators, from position 'from' on.
RECURSIVE splitFrom(_, _, _)
splitFrom(s, seps, from) ==
    only({IF at = 0 THEN <<sliceFrom(s, from)>>
          ELSE <<SubSeq(s, from, at - 1)>> \o splitFrom(s, seps, at + 1) :
            at \in {indexOfAny(s, seps, from)}})

\* s.split(sep) for a set of separator characters
splitAny(s, seps) == only({splitFrom(v, seps, 1) : v \in {s}})

\* ---- Hosts ----
\* The position of the first digit of s that is not a leading zero (the
\* last digit when all are zeros).
firstSignificant(s) ==
    only({IF at = 0 THEN Len(s) ELSE at :
            at \in {indexOfAny(s, (Digits \cup LowerAlpha \cup UpperAlpha) \ {"0"}, 1)}})

\* The value, modulo 2^16, of the first n digits of s in the radix.
RECURSIVE lowHalf(_, _, _)
lowHalf(s, radix, n) ==
    IF n = 0 THEN 0
    ELSE (lowHalf(s, radix, n - 1) * radix + hexDigitValue(charAt(s, n))) % 65536

\* The value, divided by 2^16, of the first n digits of s in the radix.
RECURSIVE highHalf(_, _, _)
highHalf(s, radix, n) ==
    IF n = 0 THEN 0
    ELSE highHalf(s, radix, n - 1) * radix
            + ((lowHalf(s, radix, n - 1) * radix + hexDigitValue(charAt(s, n))) \div 65536)

\* The number a string of digits spells in the radix, as its two halves of
\* 16 bits; overflow where it does not fit 32 bits (no number of more than
\* eleven significant digits does).
parseRadix(digits, radix) ==
    only({IF Len(s) > 11 THEN [ok |-> TRUE, overflow |-> TRUE, high |-> 0, low |-> 0]
          ELSE only({[ok |-> TRUE, overflow |-> high >= 65536, high |-> high,
                      low |-> lowHalf(s, radix, Len(s))] :
                        high \in {highHalf(s, radix, Len(s))}}) :
            s \in {IF digits = "" THEN "" ELSE sliceFrom(digits, firstSignificant(digits))}})

FailedNumber == [ok |-> FALSE, overflow |-> FALSE, high |-> 0, low |-> 0]

\* The IPv4 number parser: decimal, octal after a leading 0, hexadecimal
\* after 0x.
parseIPv4Number(part) ==
    LET hex == Len(part) >= 2 /\ toLowerCase(SubSeq(part, 1, 2)) = "0x"
        oct == ~hex /\ Len(part) >= 2 /\ charAt(part, 1) = "0"
        radix == IF hex THEN 16 ELSE IF oct THEN 8 ELSE 10
    IN  only({IF part = "" THEN FailedNumber
              ELSE IF \E i \in 1..Len(digits) :
                         \/ ~isHexDigit(charAt(digits, i))
                         \/ hexDigitValue(charAt(digits, i)) >= radix
              THEN FailedNumber
              ELSE parseRadix(digits, radix) :
                digits \in {IF hex THEN sliceFrom(part, 3)
                            ELSE IF oct THEN sliceFrom(part, 2) ELSE part}})

\* The parts of a host between its dots, a trailing empty part dropped.
ipv4PartsOf(host) ==
    only({IF Len(raw) > 1 /\ raw[Len(raw)] = "" THEN SubSeq(raw, 1, Len(raw) - 1) ELSE raw :
            raw \in {splitAny(host, {"."})}})

\* The host ends in a number: the parser reads it as an IPv4 address.
endsInNumber(host) ==
    \E parts \in {ipv4PartsOf(host)} :
        \/ isDecimal(parts[Len(parts)])
        \/ parseIPv4Number(parts[Len(parts)]).ok

\* A number is 256^k or more.
atLeast256To(n, k) ==
    \/ n.overflow
    \/ k = 1 /\ (n.high > 0 \/ n.low > 255)
    \/ k = 2 /\ n.high > 0
    \/ k = 3 /\ n.high > 255

\* The four bytes of a number.
bytesOf(n) == <<n.high \div 256, n.high % 256, n.low \div 256, n.low % 256>>

\* The IPv4 address that up to four numbers spell, the last one filling the
\* remaining bytes.
ipv4FromNumbers(numbers) ==
    IF \E i \in 1..Len(numbers) : ~numbers[i].ok THEN <<>>
    ELSE IF \E i \in 1..(Len(numbers) - 1) : atLeast256To(numbers[i], 1) THEN <<>>
    ELSE IF atLeast256To(numbers[Len(numbers)], 5 - Len(numbers)) THEN <<>>
    ELSE [j \in 1..4 |->
             IF j < Len(numbers) THEN numbers[j].low
             ELSE bytesOf(numbers[Len(numbers)])[j]]

\* The IPv4 parser: the four octets of the address, or <<>> on failure.
ipv4Parts(host) ==
    only({IF Len(parts) > 4 THEN <<>>
          ELSE only({ipv4FromNumbers(numbers) :
                        numbers \in {<<parseIPv4Number(parts[1])>>
                            \o (IF Len(parts) >= 2 THEN <<parseIPv4Number(parts[2])>> ELSE <<>>)
                            \o (IF Len(parts) >= 3 THEN <<parseIPv4Number(parts[3])>> ELSE <<>>)
                            \o (IF Len(parts) >= 4 THEN <<parseIPv4Number(parts[4])>> ELSE <<>>)}}) :
            parts \in {ipv4PartsOf(host)}})

\* The serialisation of an IPv4 address.
ipv4String(o) ==
    decimalString(o[1]) \o "." \o decimalString(o[2]) \o "."
        \o decimalString(o[3]) \o "." \o decimalString(o[4])

\* The value of the hexadecimal digits of s from position p to q.
RECURSIVE hexValue(_, _, _)
hexValue(s, p, q) ==
    IF q < p THEN 0 ELSE 16 * hexValue(s, p, q - 1) + hexDigitValue(charAt(s, q))

\* The number of hexadecimal digits of s from position p on, four at most.
RECURSIVE hexRun(_, _, _)
hexRun(s, p, length) ==
    IF length < 4 /\ p + length <= Len(s) /\ isHexDigit(charAt(s, p + length))
    THEN hexRun(s, p, length + 1) ELSE length

NoAddress == <<>>

\* The end of the IPv6 parser: the pieces after the compression move to
\* the end of the address.
ipv6Finish(address, pieceIndex, compress) ==
    IF compress # -1
    THEN [i \in 1..8 |->
             IF i <= compress THEN address[i]
             ELSE IF i > 8 - (pieceIndex - compress) THEN address[i - 8 + pieceIndex]
             ELSE 0]
    ELSE IF pieceIndex # 8 THEN NoAddress
    ELSE address

\* The IPv4 address that ends an IPv6 address: four decimal numbers of at
\* most 255, without leading zeros. Its two pieces, or <<>>.
ipv4InIpv6(s) ==
    only({IF /\ Len(parts) = 4
             /\ \A i \in 1..4 : /\ isDecimal(parts[i])
                                /\ Len(parts[i]) <= 3
                                /\ (Len(parts[i]) = 1 \/ charAt(parts[i], 1) # "0")
             /\ \A j \in 1..4 : decimalValue(parts[j]) <= 255
          THEN <<decimalValue(parts[1]) * 256 + decimalValue(parts[2]),
                 decimalValue(parts[3]) * 256 + decimalValue(parts[4])>>
          ELSE <<>> : parts \in {splitAny(s, {"."})}})

\* One piece of the IPv6 parser's loop, read at pointer p (from 1) with
\* 'length' hexadecimal digits; pieceIndex and compress count from 0,
\* compress is -1 while unset.
RECURSIVE ipv6Pieces(_, _, _, _, _)
ipv6Piece(s, p, length, address, pieceIndex, compress) ==
    IF p + length > Len(s)
    THEN ipv6Finish([address EXCEPT ![pieceIndex + 1] = hexValue(s, p, p + length - 1)],
                    pieceIndex + 1, compress)
    ELSE IF charAt(s, p + length) = "."
    THEN only({IF length = 0 \/ pieceIndex > 6 \/ four = <<>> THEN NoAddress
               ELSE ipv6Finish([address EXCEPT ![pieceIndex + 1] = four[1],
                                               ![pieceIndex + 2] = four[2]],
                               pieceIndex + 2, compress) :
                    four \in {ipv4InIpv6(sliceFrom(s, p))}})
    ELSE IF charAt(s, p + length) = ":" /\ p + length + 1 <= Len(s)
    THEN only({ipv6Pieces(s, p + length + 1, next, pieceIndex + 1, compress) :
                    next \in {[address EXCEPT ![pieceIndex + 1] = hexValue(s, p, p + length - 1)]}})
    ELSE NoAddress

\* The main loop of the IPv6 parser.
ipv6Pieces(s, p, address, pieceIndex, compress) ==
    IF p > Len(s) THEN ipv6Finish(address, pieceIndex, compress)
    ELSE IF pieceIndex = 8 THEN NoAddress
    ELSE IF charAt(s, p) = ":"
    THEN IF compress # -1 THEN NoAddress
         ELSE ipv6Pieces(s, p + 1, address, pieceIndex + 1, pieceIndex + 1)
    ELSE only({ipv6Piece(s, p, length, address, pieceIndex, compress) :
                    length \in {hexRun(s, p, 0)}})

\* The IPv6 parser: the eight pieces of the address, or <<>>.
ipv6Parse(s) ==
    only({IF startsWith(v, ":")
          THEN IF ~startsWith(v, "::") THEN NoAddress
               ELSE ipv6Pieces(v, 3, <<0, 0, 0, 0, 0, 0, 0, 0>>, 1, 1)
          ELSE ipv6Pieces(v, 1, <<0, 0, 0, 0, 0, 0, 0, 0>>, 0, -1) : v \in {s}})

\* The hexadecimal digits of n >= 0, in lower case.
RECURSIVE hexString(_)
hexString(n) ==
    IF n < 16 THEN charAt(HexLower, n + 1)
    ELSE hexString(n \div 16) \o charAt(HexLower, (n % 16) + 1)

\* The length of the run of zero pieces that starts at piece i.
RECURSIVE zeroRun(_, _)
zeroRun(address, i) ==
    IF i <= 8 /\ address[i] = 0 THEN 1 + zeroRun(address, i + 1) ELSE 0

\* The first longest run of two or more zero pieces, or 0.
compressAt(address) ==
    only({IF best = {} THEN 0 ELSE CHOOSE i \in best : \A j \in best : i <= j :
            best \in {{i \in 1..8 : /\ zeroRun(address, i) >= 2
                                    /\ \A j \in 1..8 : zeroRun(address, j) <= zeroRun(address, i)}}})

RECURSIVE ipv6From(_, _, _)
ipv6From(address, i, compress) ==
    IF i > 8 THEN ""
    ELSE IF i = compress
    THEN (IF i = 1 THEN "::" ELSE ":")
            \o ipv6From(address, i + zeroRun(address, i), compress)
    ELSE hexString(address[i]) \o (IF i # 8 THEN ":" ELSE "")
            \o ipv6From(address, i + 1, compress)

\* The serialisation of an IPv6 address, without its brackets.
ipv6String(address) ==
    only({ipv6From(a, 1, compress) : a \in {address}, compress \in {compressAt(address)}})

ForbiddenHostChars ==
    {"\t", "\n", "\r", " ", "#", "/", ":", "<", ">", "?", "@", "[", "\\", "]", "^", "|"}

ForbiddenDomainChars == ForbiddenHostChars \cup C0Controls \cup {"%"}

\* The forbidden domain code points, as numbers.
ForbiddenDomainCodes ==
    0..32 \cup {35, 37, 47, 58, 60, 62, 63, 64, 91, 92, 93, 94, 124, 127}

FailedHost == [ok |-> FALSE, host |-> ""]

Host(h) == [ok |-> TRUE, host |-> h]

\* ---- Domain to ASCII ----
\* The number of continuation bytes the lead byte of a UTF-8 sequence asks
\* for, or -1.
utf8Needed(byte) ==
    IF byte < 128 THEN 0
    ELSE IF byte \in 194..223 THEN 1
    ELSE IF byte \in 224..239 THEN 2
    ELSE IF byte \in 240..244 THEN 3
    ELSE -1

\* A well-formed UTF-8 sequence of 1 + needed bytes starts at position i.
utf8Valid(bytes, i, needed) ==
    /\ needed >= 0
    /\ i + needed <= Len(bytes)
    /\ needed >= 1 =>
          bytes[i + 1] \in
              (IF bytes[i] = 224 THEN 160 ELSE IF bytes[i] = 240 THEN 144 ELSE 128)
                  .. (IF bytes[i] = 237 THEN 159 ELSE IF bytes[i] = 244 THEN 143 ELSE 191)
    /\ \A k \in 2..needed : bytes[i + k] \in 128..191

utf8Value(bytes, i, needed) ==
    CASE needed = 0 -> bytes[i]
      [] needed = 1 -> (bytes[i] - 192) * 64 + (bytes[i + 1] - 128)
      [] needed = 2 -> (bytes[i] - 224) * 4096 + (bytes[i + 1] - 128) * 64
                            + (bytes[i + 2] - 128)
      [] needed = 3 -> (bytes[i] - 240) * 262144 + (bytes[i + 1] - 128) * 4096
                            + (bytes[i + 2] - 128) * 64 + (bytes[i + 3] - 128)

RECURSIVE utf8From(_, _)
utf8From(bytes, i) ==
    IF i > Len(bytes) THEN <<>>
    ELSE only({IF utf8Valid(bytes, i, needed)
               THEN <<utf8Value(bytes, i, needed)>> \o utf8From(bytes, i + needed + 1)
               ELSE <<65533>> \o utf8From(bytes, i + 1) :
                    needed \in {utf8Needed(bytes[i])}})

\* UTF-8 decode: the code points of the bytes, U+FFFD (which no domain may
\* hold) for each byte that is not part of a well-formed sequence.
utf8ToUtf32(bytes) == only({utf8From(b, 1) : b \in {bytes}})

\* The status of a code point in the IDNA mapping table, with
\* UseSTD3ASCIIRules false and nontransitional processing.  The table is
\* that of ASCII, Latin-1, the Greek and Cyrillic alphabets and the CJK
\* unified ideographs U+4E00 to U+9FA5, of the code points these map to,
\* and of the large disallowed ranges (surrogates, private use, U+E01F0
\* and above).
idnaStatus(c) ==
    CASE c \in 0..64 \cup 91..127 -> "valid"
      [] c \in 65..90 -> "mapped"
      [] c \in 128..159 -> "disallowed"
      [] c \in {160, 168, 170, 175, 178, 179, 180, 181, 184, 185, 186, 188, 189, 190} -> "mapped"
      [] c \in (161..191) \ {168, 170, 173, 175, 178, 179, 180, 181, 184, 185, 186, 188, 189, 190}
            -> "valid"
      [] c = 173 -> "ignored"
      [] c \in (192..222) \ {215} -> "mapped"
      [] c \in {215} \cup 223..255 -> "valid"
      [] c \in (913..937) \ {930} -> "mapped"
      [] c = 930 -> "disallowed"
      [] c \in 945..969 -> "valid"
      [] c \in 1024..1071 -> "mapped"
      [] c \in 1072..1119 -> "valid"
      [] c = 8260 -> "valid"
      [] c \in 19968..40869 -> "valid"
      [] c \in 55296..63743 -> "disallowed"
      [] c = 65533 -> "disallowed"
      [] c >= 918000 -> "disallowed"

\* What a mapped code point maps to.
idnaMapping(c) ==
    CASE c \in 65..90 \cup ((192..222) \ {215}) \cup ((913..937) \ {930}) \cup 1040..1071
            -> <<c + 32>>
      [] c \in 1024..1039 -> <<c + 80>>
      [] c = 160 -> <<32>>
      [] c = 168 -> <<32, 776>>
      [] c = 170 -> <<97>>
      [] c = 175 -> <<32, 772>>
      [] c = 178 -> <<50>>
      [] c = 179 -> <<51>>
      [] c = 180 -> <<32, 769>>
      [] c = 181 -> <<956>>
      [] c = 184 -> <<32, 807>>
      [] c = 185 -> <<49>>
      [] c = 186 -> <<111>>
      [] c = 188 -> <<49, 8260, 52>>
      [] c = 189 -> <<49, 8260, 50>>
      [] c = 190 -> <<51, 8260, 52>>

\* The result of a step of the domain processing that failed.
IdnaFailed == <<-1>>

RECURSIVE mapFrom(_, _)
mapFrom(codes, i) ==
    IF i > Len(codes) THEN <<>>
    ELSE only({(CASE status = "valid" -> <<codes[i]>>
                  [] status = "ignored" -> <<>>
                  [] status = "mapped" -> idnaMapping(codes[i])
                  [] status = "disallowed" -> IdnaFailed) \o mapFrom(codes, i + 1) :
                    status \in {idnaStatus(codes[i])}})

\* ada::idna::map: the mapping step; a disallowed code point fails it.
idnaMap(codes) ==
    only({IF \E i \in 1..Len(mapped) : mapped[i] = -1 THEN IdnaFailed ELSE mapped :
            mapped \in {only({mapFrom(c, 1) : c \in {codes}})}})

\* Normalisation to NFC.  No code point that idnaStatus covers composes
\* with another or decomposes, and the marks idnaMapping gives follow a
\* space: the sequence is in NFC as it stands.
normalize(codes) == codes

\* The combining marks among the code points idnaMapping gives.
CombiningMarks == {769, 772, 776, 807}

\* ada::idna::is_label_valid: a label does not begin with a combining mark
\* (the rules on joiners and on right-to-left labels concern no code point
\* that idnaStatus covers).
isLabelValid(label) ==
    \/ label = <<>>
    \/ /\ label[1] \notin CombiningMarks
       /\ \E i \in 1..Len(label) : label[i] \notin CombiningMarks

\* ---- Punycode (RFC 3492): base 36, tmin 1, tmax 26, skew 38, damp 700,
\* initial bias 72, initial n 128 ----
RECURSIVE adaptFrom(_, _)
adaptFrom(delta, k) ==
    IF delta > ((36 - 1) * 26) \div 2 THEN adaptFrom(delta \div (36 - 1), k + 36)
    ELSE k + (((36 - 1 + 1) * delta) \div (delta + 38))

\* The bias adaptation.
adapt(delta, numPoints, firstTime) ==
    only({adaptFrom(d + (d \div numPoints), 0) :
            d \in {IF firstTime THEN delta \div 700 ELSE delta \div 2}})

\* The threshold of digit position k.
threshold(k, bias) == IF k <= bias THEN 1 ELSE IF k >= bias + 26 THEN 26 ELSE k - bias

\* The value of a Punycode digit (a to z, 0 to 9), or -1.
digitOf(code) ==
    IF code \in 97..122 THEN code - 97 ELSE IF code \in 48..57 THEN code - 22 ELSE -1

\* The code point of the digit d.
codeOfDigit(d) == IF d < 26 THEN 97 + d ELSE 22 + d

NoNumber == <<-1, 0>>

\* One generalized variable-length integer, read from position pos on: the
\* new i and the position after it, or NoNumber (no digit, or overflow of
\* 32 bits).
RECURSIVE numberFrom(_, _, _, _, _, _)
numberFrom(input, pos, i, w, k, bias) ==
    IF pos > Len(input) THEN NoNumber
    ELSE only({IF digit < 0 \/ digit > (2147483647 - i) \div w THEN NoNumber
               ELSE IF digit < t THEN <<i + digit * w, pos + 1>>
               ELSE IF w > 2147483647 \div (36 - t) THEN NoNumber
               ELSE numberFrom(input, pos + 1, i + digit * w, w * (36 - t), k + 36, bias) :
                    digit \in {digitOf(input[pos])}, t \in {threshold(k, bias)}})

\* out with the code point inserted after its first 'at' elements.
insertAt(out, at, code) == SubSeq(out, 1, at) \o <<code>> \o SubSeq(out, at + 1, Len(out))

RECURSIVE decodeDeltas(_, _, _, _, _, _)
decodeDeltas(input, pos, n, i, bias, out) ==
    IF pos > Len(input) THEN out
    ELSE only({IF number = NoNumber THEN IdnaFailed
               ELSE IF number[1] \div count > 2147483647 - n THEN IdnaFailed
               ELSE only({IF code < 128 THEN IdnaFailed
                          ELSE decodeDeltas(input, number[2], code, at + 1,
                                            adapt(number[1] - i, count, i = 0),
                                            insertAt(out, at, code)) :
                            code \in {n + (number[1] \div count)},
                            at \in {number[1] % count}}) :
                    number \in {numberFrom(input, pos, i, 1, 36, bias)},
                    count \in {Len(out) + 1}})

\* The position of the last hyphen of the codes, or 0.
lastHyphen(codes) ==
    only({IF hits = {} THEN 0 ELSE CHOOSE i \in hits : \A j \in hits : i >= j :
            hits \in {{i \in 1..Len(codes) : codes[i] = 45}}})

\* ada::idna::punycode_to_utf32: the code points an ASCII string spells in
\* Punycode, or IdnaFailed.
punycodeToUtf32(input) ==
    IF input = <<>> THEN IdnaFailed
    ELSE only({decodeDeltas(input, dash + 1, 128, 0, 72, SubSeq(input, 1, dash - 1)) :
                dash \in {lastHyphen(input)}})

\* The digits of the delta q.
RECURSIVE digitsOf(_, _, _)
digitsOf(q, k, bias) ==
    only({IF q < t THEN <<codeOfDigit(q)>>
          ELSE <<codeOfDigit(t + ((q - t) % (36 - t)))>>
                    \o digitsOf((q - t) \div (36 - t), k + 36, bias) :
            t \in {threshold(k, bias)}})

\* One pass over the label for the code point n: the digits written, and
\* delta, bias and h after the pass.
RECURSIVE encodePass(_, _, _, _, _, _, _)
encodePass(label, j, n, delta, bias, h, b) ==
    IF j > Len(label) THEN <<<<>>, delta, bias, h>>
    ELSE IF label[j] < n THEN encodePass(label, j + 1, n, delta + 1, bias, h, b)
    ELSE IF label[j] > n THEN encodePass(label, j + 1, n, delta, bias, h, b)
    ELSE only({<<digits \o rest[1], rest[2], rest[3], rest[4]>> :
                digits \in {digitsOf(delta, 36, bias)},
                rest \in {only({encodePass(label, j + 1, n, 0, nextBias, h + 1, b) :
                                    nextBias \in {adapt(delta, h + 1, h = b)}})}})

\* The least code point of the label that is n or more.
leastFrom(label, n) ==
    only({CHOOSE m \in rest : \A c \in rest : m <= c :
            rest \in {{label[j] : j \in {j \in 1..Len(label) : label[j] >= n}}}})

RECURSIVE encodeDeltas(_, _, _, _, _, _)
encodeDeltas(label, n, delta, bias, h, b) ==
    IF h >= Len(label) THEN <<>>
    ELSE only({only({pass[1] \o encodeDeltas(label, m + 1, pass[2] + 1, pass[3], pass[4], b) :
                        pass \in {encodePass(label, 1, m, delta + (m - n) * (h + 1), bias, h, b)}}) :
                    m \in {leastFrom(label, n)}})

isAsciiCode(code) == code < 128

\* ada::idna::utf32_to_punycode: the Punycode of a label.
utf32ToPunycode(label) ==
    only({basic \o (IF basic # <<>> THEN <<45>> ELSE <<>>)
                \o encodeDeltas(label, 128, 0, 72, Len(basic), Len(basic)) :
            basic \in {SelectSeq(label, isAsciiCode)}})

\* ---- Labels ----
isAscii(codes) == \A i \in 1..Len(codes) : codes[i] < 128

\* "xn--"
XnPrefix == <<120, 110, 45, 45>>

\* One label of ada::idna::to_ascii.  A label that starts with "xn--" is
\* kept when it is the Punycode of a valid label that is not empty (the
\* label may be ASCII only: "xn--a-" spells "a" and is kept); a label with
\* a code point above U+007F is written in Punycode.
labelToAscii(label) ==
    IF Len(label) >= 4 /\ SubSeq(label, 1, 4) = XnPrefix
    THEN IF ~isAscii(label) THEN IdnaFailed
         ELSE only({IF \/ decoded = IdnaFailed
                       \/ decoded = <<>>
                       \/ idnaMap(decoded) # decoded
                       \/ normalize(decoded) # decoded
                       \/ ~isLabelValid(decoded)
                    THEN IdnaFailed
                    ELSE label :
                        decoded \in {punycodeToUtf32(SubSeq(label, 5, Len(label)))}})
    ELSE IF isAscii(label) THEN label
    ELSE IF ~isLabelValid(label) THEN IdnaFailed
    ELSE XnPrefix \o utf32ToPunycode(label)

\* The labels of a domain: its code points between the dots.
RECURSIVE labelsFrom(_, _, _)
labelsFrom(codes, from, i) ==
    IF i > Len(codes) THEN <<SubSeq(codes, from, Len(codes))>>
    ELSE IF codes[i] = 46 THEN <<SubSeq(codes, from, i - 1)>> \o labelsFrom(codes, i + 1, i + 1)
    ELSE labelsFrom(codes, from, i + 1)

RECURSIVE joinLabels(_, _)
joinLabels(labels, i) ==
    IF i > Len(labels) THEN <<>>
    ELSE labels[i] \o (IF i < Len(labels) THEN <<46>> ELSE <<>>) \o joinLabels(labels, i + 1)

\* The labels in ASCII, joined by dots, or IdnaFailed.
labelsToAscii(raw) ==
    only({IF \E i \in 1..Len(labels) : labels[i] = IdnaFailed THEN IdnaFailed
          ELSE joinLabels(labels, 1) :
            labels \in {[i \in 1..Len(raw) |-> labelToAscii(raw[i])]}})

\* ada::idna::to_ascii (domain to ASCII): map, normalise, then label by
\* label.
toAscii(codes) ==
    only({IF mapped = IdnaFailed THEN IdnaFailed
          ELSE only({labelsToAscii(raw) : raw \in {labelsFrom(normalize(mapped), 1, 1)}}) :
            mapped \in {idnaMap(codes)}})

RECURSIVE stringFrom(_, _)
stringFrom(codes, i) ==
    IF i > Len(codes) THEN "" ELSE fromCharCode(codes[i]) \o stringFrom(codes, i + 1)

\* The host of a domain in ASCII: the IPv4 address it spells when it ends
\* in a number, or the domain itself.
ipv4OrDomain(domain) ==
    IF endsInNumber(domain)
    THEN only({IF octets = <<>> THEN FailedHost ELSE Host(ipv4String(octets)) :
                    octets \in {ipv4Parts(domain)}})
    ELSE Host(domain)

\* s holds "xn-".
holdsXn(s) == \E i \in 1..(Len(s) - 2) : SubSeq(s, i, i + 2) = "xn-"

\* The host of a special URL.  A host with no forbidden domain code point,
\* no code point above U+007F and no "xn-" is its own lower case; any
\* other goes through percent-decoding and domain to ASCII.
parseDomain(input) ==
    only({IF /\ \A i \in 1..Len(buffer) :
                    /\ charAt(buffer, i) \in AsciiChars
                    /\ charAt(buffer, i) \notin ForbiddenDomainChars
             /\ ~holdsXn(buffer)
          THEN ipv4OrDomain(buffer)
          ELSE only({IF \/ ascii = IdnaFailed
                        \/ ascii = <<>>
                        \/ \E i \in 1..Len(ascii) : ascii[i] \in ForbiddenDomainCodes
                     THEN FailedHost
                     ELSE only({ipv4OrDomain(domain) : domain \in {stringFrom(ascii, 1)}}) :
                        ascii \in {toAscii(utf8ToUtf32(percentDecode(input)))}}) :
            buffer \in {toLowerCase(input)}})

\* The host parser: an IPv6 literal in brackets, an opaque host for a
\* scheme that is not special, else a domain.
parseHost(input, isOpaque) ==
    IF startsWith(input, "[")
    THEN only({IF charAt(input, Len(input)) # "]" \/ address = NoAddress THEN FailedHost
               ELSE Host("[" \o ipv6String(address) \o "]") :
                    address \in {ipv6Parse(SubSeq(input, 2, Len(input) - 1))}})
    ELSE IF isOpaque
    THEN IF \E i \in 1..Len(input) : charAt(input, i) \in ForbiddenHostChars
         THEN FailedHost
         ELSE Host(percentEncode(input, C0Controls))
    ELSE IF input = "" THEN FailedHost
    ELSE parseDomain(input)

\* ---- The URL record ----
\* hasHost is FALSE for a null host, port is "" for a null port, hasQuery
\* and hasFragment are FALSE for null; path is the list of segments, or
\* opaquePath the opaque path.
FailedUrl ==
    [ok |-> FALSE, protocol |-> "", username |-> "", password |-> "",
     hasHost |-> FALSE, hostname |-> "", port |-> "", opaque |-> FALSE,
     path |-> <<>>, opaquePath |-> "", hasQuery |-> FALSE, query |-> "",
     hasFragment |-> FALSE, fragment |-> ""]

\* The port state: digits only, at most 65535; the default port of the
\* scheme is dropped. ok, and the port as the serialiser writes it.
parsePort(scheme, digits) ==
    IF digits = "" THEN [ok |-> TRUE, port |-> ""]
    ELSE IF ~isDecimal(digits) THEN [ok |-> FALSE, port |-> ""]
    ELSE only({IF Len(significant) > 5 THEN [ok |-> FALSE, port |-> ""]
               ELSE only({IF value > 65535 THEN [ok |-> FALSE, port |-> ""]
                          ELSE IF value = defaultPort(scheme) THEN [ok |-> TRUE, port |-> ""]
                          ELSE [ok |-> TRUE, port |-> significant] :
                            value \in {decimalValue(significant)}}) :
                    significant \in {sliceFrom(digits, firstSignificant(digits))}})

\* The colon that ends the host of host[:port]: the first one outside
\* square brackets, or 0.
RECURSIVE portColon(_, _, _)
portColon(hp, i, inside) ==
    IF i > Len(hp) THEN 0
    ELSE IF charAt(hp, i) = ":" /\ ~inside THEN i
    ELSE portColon(hp, i + 1, (inside \/ charAt(hp, i) = "[") /\ charAt(hp, i) # "]")

NoAuthority == [ok |-> TRUE, username |-> "", password |-> "", hasHost |-> FALSE,
                hostname |-> "", port |-> ""]

EmptyHost == [NoAuthority EXCEPT !.hasHost = TRUE]

FailedAuthority == [NoAuthority EXCEPT !.ok = FALSE]

\* The host state on host[:port], the colon of the port at position portAt
\* (0: none).
parseHostPort(scheme, hp, portAt) ==
    only({IF rawHost = "" /\ (scheme \in SpecialSchemes \/ portAt # 0) THEN FailedAuthority
          ELSE IF ~port.ok THEN FailedAuthority
          ELSE IF rawHost = "" THEN EmptyHost
          ELSE only({IF ~host.ok THEN FailedAuthority
                     ELSE [EmptyHost EXCEPT !.hostname = host.host, !.port = port.port] :
                        host \in {parseHost(rawHost, scheme \notin SpecialSchemes)}}) :
            rawHost \in {IF portAt = 0 THEN hp ELSE SubSeq(hp, 1, portAt - 1)},
            port \in {parsePort(scheme, IF portAt = 0 THEN "" ELSE sliceFrom(hp, portAt + 1))}})

\* The credentials user[:password] of an authority, percent-encoded.
withCredentials(auth, credentials, colon) ==
    [auth EXCEPT
        !.username = percentEncode(IF colon = 0 THEN credentials
                                   ELSE SubSeq(credentials, 1, colon - 1), UserinfoSet),
        !.password = percentEncode(IF colon = 0 THEN ""
                                   ELSE sliceFrom(credentials, colon + 1), UserinfoSet)]

\* The authority state on credentials@host:port, its last '@' at position
\* at (0: no credentials).
authorityAt(scheme, authority, at) ==
    IF at # 0 /\ at = Len(authority) THEN FailedAuthority
    ELSE only({IF ~auth.ok THEN FailedAuthority
               ELSE withCredentials(auth, credentials, indexOfAny(credentials, {":"}, 1)) :
                    auth \in {only({parseHostPort(scheme, hp, portColon(hp, 1, FALSE)) :
                                        hp \in {sliceFrom(authority, at + 1)}})},
                    credentials \in {SubSeq(authority, 1, at - 1)}})

\* The authority and host states.
parseAuthority(scheme, authority) ==
    only({authorityAt(scheme, a, lastIndexOfAny(a, {"@"})) : a \in {authority}})

\* checkers::is_windows_drive_letter: a letter, ":" or "|", and then the
\* end or one of / \ ? #
isWindowsDriveLetter(s) ==
    /\ Len(s) >= 2
    /\ charAt(s, 1) \in UpperAlpha \cup LowerAlpha
    /\ charAt(s, 2) \in {":", "|"}
    /\ (Len(s) = 2 \/ charAt(s, 3) \in {"/", "\\", "?", "#"})

\* checkers::is_normalized_windows_drive_letter: a letter and ":" start s.
isNormalizedDriveLetter(s) ==
    Len(s) >= 2 /\ charAt(s, 1) \in UpperAlpha \cup LowerAlpha /\ charAt(s, 2) = ":"

isSingleDot(segment) == toLowerCase(segment) \in {".", "%2e"}

isDoubleDot(segment) == toLowerCase(segment) \in {"..", ".%2e", "%2e.", "%2e%2e"}

\* helpers::shorten_path: the last segment goes, but not the only segment
\* of a file URL when a drive letter starts it.
shorten(scheme, path) ==
    IF scheme = "file" /\ Len(path) = 1 /\ isNormalizedDriveLetter(path[1]) THEN path
    ELSE IF path = <<>> THEN path
    ELSE SubSeq(path, 1, Len(path) - 1)

\* The path after one more segment; last: the segment ends the path.  A
\* double-dot segment that ends the path leaves an empty last segment when
\* it removed a segment or the URL is special.
pathAfter(scheme, path, buffer, last) ==
    IF isDoubleDot(buffer)
    THEN only({short \o (IF last /\ (short # path \/ scheme \in SpecialSchemes)
                         THEN <<"">> ELSE <<>>) :
                short \in {shorten(scheme, path)}})
    ELSE IF isSingleDot(buffer)
    THEN path \o (IF last THEN <<"">> ELSE <<>>)
    ELSE IF scheme = "file" /\ path = <<>> /\ isWindowsDriveLetter(buffer)
    THEN <<charAt(buffer, 1) \o ":" \o sliceFrom(buffer, 3)>>
    ELSE Append(path, buffer)

\* The path state on the raw segments from position i on, path being what
\* came before.
RECURSIVE pathFrom(_, _, _, _)
pathFrom(scheme, raw, i, path) ==
    IF i > Len(raw) THEN path
    ELSE only({pathFrom(scheme, raw, i + 1, next) :
                next \in {only({pathAfter(scheme, path, buffer, i = Len(raw)) :
                                    buffer \in {percentEncode(raw[i], PathSet)}})}})

\* The position of the first "/." of s, or 0.
slashDot(s) ==
    only({IF hits = {} THEN 0 ELSE CHOOSE i \in hits : \A j \in hits : i <= j :
            hits \in {{i \in 1..(Len(s) - 1) : SubSeq(s, i, i + 1) = "/."}}})

\* helpers::parse_prepared_path takes a path as it stands when nothing in
\* it asks for work: no character to percent-encode, no "%", no backslash
\* in a special URL and no dot; or, with dots and none of the others, when
\* it does not start with a dot and its first "/." is followed by a
\* character other than "." and "/".  Only the first "/." is looked at.
isTrivialPath(scheme, input) ==
    \E encoding \in {\E i \in 1..Len(input) : inSet(charAt(input, i), PathSet)},
       backslash \in {indexOfAny(input, {"\\"}, 1) # 0},
       dot \in {indexOfAny(input, {"."}, 1) # 0},
       percent \in {indexOfAny(input, {"%"}, 1) # 0} :
        /\ ~(scheme = "file" /\ isWindowsDriveLetter(input))
        /\ ~encoding
        /\ ~percent
        /\ \/ ~dot /\ (scheme \in SpecialSchemes => ~backslash)
           \/ /\ dot
              /\ ~backslash
              /\ charAt(input, 1) # "."
              /\ \E at \in {slashDot(input)} :
                    \/ at = 0
                    \/ at + 2 <= Len(input) /\ charAt(input, at + 2) \notin {".", "/"}

\* The segments of a path string (what follows the first slash).
pathSegments(scheme, pathString) ==
    IF isTrivialPath(scheme, pathString) THEN splitAny(pathString, {"/"})
    ELSE only({pathFrom(scheme, raw, 1, <<>>) :
                raw \in {splitAny(pathString,
                            IF scheme \in SpecialSchemes THEN {"/", "\\"} ELSE {"/"})}})

\* What precedes the query or fragment of s, and the query and fragment.
tailOf(scheme, s) ==
    only({[before |-> IF stop = 0 THEN s ELSE SubSeq(s, 1, stop - 1),
           hasQuery |-> stop # 0 /\ charAt(s, stop) = "?",
           query |-> IF stop = 0 \/ charAt(s, stop) # "?" THEN ""
                     ELSE percentEncode(IF hash = 0 THEN sliceFrom(s, stop + 1)
                                        ELSE SubSeq(s, stop + 1, hash - 1),
                            IF scheme \in SpecialSchemes THEN SpecialQuerySet ELSE QuerySet),
           hasFragment |-> hash # 0,
           fragment |-> IF hash = 0 THEN ""
                        ELSE percentEncode(sliceFrom(s, hash + 1), FragmentSet)] :
            stop \in {indexOfAny(s, {"?", "#"}, 1)}, hash \in {indexOfAny(s, {"#"}, 1)}})

\* The URL of a scheme, an authority, a path and a tail.
urlOf(scheme, auth, path, tail) ==
    [ok |-> TRUE, protocol |-> scheme \o ":", username |-> auth.username,
     password |-> auth.password, hasHost |-> auth.hasHost,
     hostname |-> auth.hostname, port |-> auth.port, opaque |-> FALSE,
     path |-> path, opaquePath |-> "", hasQuery |-> tail.hasQuery, query |-> tail.query,
     hasFragment |-> tail.hasFragment, fragment |-> tail.fragment]

\* The URL of a scheme and an authority, its path, query and fragment read
\* from 'after'. fromStart: the path start state (a leading slash opens the
\* path; a URL that is not special has no segment when nothing precedes
\* the query); else the path state.
urlWith(scheme, auth, after, fromStart) ==
    only({urlOf(scheme, auth,
                IF fromStart /\ scheme \notin SpecialSchemes /\ tail.before = "" THEN <<>>
                ELSE pathSegments(scheme,
                        IF /\ fromStart
                           /\ tail.before # ""
                           /\ charAt(tail.before, 1) \in
                                 (IF scheme \in SpecialSchemes THEN {"/", "\\"} ELSE {"/"})
                        THEN sliceFrom(tail.before, 2) ELSE tail.before),
                tail) :
            tail \in {tailOf(scheme, after)}})

\* A URL with an opaque path: a scheme that is not special, not followed by
\* a slash.
opaqueUrl(scheme, rest) ==
    only({[urlOf(scheme, NoAuthority, <<>>, tail) EXCEPT
              !.opaque = TRUE, !.opaquePath = percentEncode(tail.before, C0Controls)] :
            tail \in {tailOf(scheme, rest)}})

\* The position of the first character of s that is not a slash (one past
\* the end when all are).
afterSlashes(s, slashes) ==
    only({IF keep = {} THEN Len(s) + 1 ELSE CHOOSE i \in keep : \A j \in keep : i <= j :
            keep \in {{i \in 1..Len(s) : charAt(s, i) \notin slashes}}})

\* s up to its first character of the set, and s from there on.
cutAt(s, stops) ==
    only({[head |-> IF stop = 0 THEN s ELSE SubSeq(s, 1, stop - 1),
           rest |-> IF stop = 0 THEN "" ELSE sliceFrom(s, stop)] :
            stop \in {indexOfAny(s, stops, 1)}})

\* The file host state on the host and what follows it.
fileHost(cut) ==
    IF isWindowsDriveLetter(cut.head) THEN urlWith("file", EmptyHost, cut.head \o cut.rest, FALSE)
    ELSE IF cut.head = "" THEN urlWith("file", EmptyHost, cut.rest, TRUE)
    ELSE only({IF ~host.ok THEN FailedUrl
               ELSE urlWith("file",
                            [EmptyHost EXCEPT !.hostname =
                                IF host.host = "localhost" THEN "" ELSE host.host],
                            cut.rest, TRUE) :
                    host \in {parseHost(cut.head, FALSE)}})

\* The file and file slash states.
parseFile(rest) ==
    IF rest = "" \/ charAt(rest, 1) \notin {"/", "\\"}
    THEN urlWith("file", EmptyHost, rest, FALSE)
    ELSE IF Len(rest) < 2 \/ charAt(rest, 2) \notin {"/", "\\"}
    THEN urlWith("file", EmptyHost, sliceFrom(rest, 2), FALSE)
    ELSE only({fileHost(cut) : cut \in {cutAt(sliceFrom(rest, 3), {"/", "\\", "?", "#"})}})

\* The authority of a URL and what follows it.
parseWithAuthority(scheme, cut) ==
    only({IF ~auth.ok THEN FailedUrl ELSE urlWith(scheme, auth, cut.rest, TRUE) :
            auth \in {parseAuthority(scheme, cut.head)}})

\* The states that follow the scheme.
parseAfterScheme(scheme, rest) ==
    IF scheme = "file" THEN parseFile(rest)
    ELSE IF scheme \in SpecialSchemes
    THEN only({parseWithAuthority(scheme, cut) :
                cut \in {cutAt(sliceFrom(rest, afterSlashes(rest, {"/", "\\"})),
                               {"/", "\\", "?", "#"})}})
    ELSE IF startsWith(rest, "//")
    THEN only({parseWithAuthority(scheme, cut) :
                cut \in {cutAt(sliceFrom(rest, 3), {"/", "?", "#"})}})
    ELSE IF startsWith(rest, "/") THEN urlWith(scheme, NoAuthority, sliceFrom(rest, 2), FALSE)
    ELSE opaqueUrl(scheme, rest)

\* The scheme state on a string without leading and trailing blanks, tabs
\* and newlines.
parseScheme(s, colon) ==
    IF colon = 0 THEN FailedUrl
    ELSE only({parseAfterScheme(scheme, rest) :
                scheme \in {toLowerCase(SubSeq(s, 1, colon - 1))},
                rest \in {sliceFrom(s, colon + 1)}})

\* new URL(urlString): ok is FALSE where the constructor throws a TypeError.
parseUrl(urlString) ==
    only({only({parseScheme(s, colon) : colon \in {schemeEnd(s)}}) :
            s \in {removeTabOrNewline(trimEnd(trimStart(urlString)))}})

RECURSIVE joinFrom(_, _)
joinFrom(path, i) ==
    IF i > Len(path) THEN "" ELSE "/" \o path[i] \o joinFrom(path, i + 1)

\* url.href: the URL serialiser.
href(url) ==
    url.protocol
        \o (IF url.hasHost
            THEN "//" \o (IF url.username # "" \/ url.password # ""
                          THEN url.username
                                  \o (IF url.password # "" THEN ":" \o url.password ELSE "")
                                  \o "@"
                          ELSE "")
                      \o url.hostname
                      \o (IF url.port # "" THEN ":" \o url.port ELSE "")
            ELSE IF ~url.opaque /\ Len(url.path) > 1 /\ url.path[1] = "" THEN "/."
            ELSE "")
        \o (IF url.opaque THEN url.opaquePath ELSE joinFrom(url.path, 1))
        \o (IF url.hasQuery THEN "?" \o url.query ELSE "")
        \o (IF url.hasFragment THEN "#" \o url.fragment ELSE "")

\* ---- The upload schemas ----
\* title: z.string().min(1).max(200)
TITLE_MIN_LENGTH == 1
TITLE_MAX_LENGTH == 200

\* content: z.string().min(100).max(100000)
CONTENT_MIN_LENGTH == 100
CONTENT_MAX_LENGTH == 100000

\* A key of the request body: present with a string value, or missing.
Present(v) == [present |-> TRUE, value |-> v]
Missing == [present |-> FALSE, value |-> ""]

\* z.string().min(1).max(200), optional or not
titleValid(title, optional) ==
    IF ~title.present THEN optional
    ELSE Len(title.value) >= TITLE_MIN_LENGTH /\ Len(title.value) <= TITLE_MAX_LENGTH

\* What z.string().url() does depends on the zod release the build
\* installs ('zod' is imported without a pinned version). Each release
\* accepts the strings new URL() accepts; it hands on to the refinement the
\* string as submitted (zod 3), the string trimmed, url.href, or url.href
\* without its final slash when the input had none (releases of zod 4).
ZodBuilds == {"input", "trimmed", "href", "href_slash"}

\* z.string().url(): the string is one that new URL() accepts.
isUrl(s) == parseUrl(s).ok

\* The value .url() hands on for a string it accepts.
urlOutput(zod, s) ==
    CASE zod = "input" -> s
      [] zod = "trimmed" -> trimEnd(trimStart(s))
      [] zod = "href" -> only({href(url) : url \in {parseUrl(s)}})
      [] zod = "href_slash" ->
            only({IF ~endsWith(s, "/") /\ endsWith(h, "/") THEN SubSeq(h, 1, Len(h) - 1) ELSE h :
                    h \in {only({href(url) : url \in {parseUrl(s)}})}})

\* A refinement that lets plain http through as well.
httpsOnlyAnyHttp(url) == startsWith(url, "http")

\* .refine(url => url.startsWith('https://'))
httpsOnly(url) == startsWith(url, "https://")

\* A content check whose lower bound is exclusive of 99 only.
contentValidFrom99(content) ==
    content.present /\ Len(content.value) >= CONTENT_MIN_LENGTH - 1
                    /\ Len(content.value) <= CONTENT_MAX_LENGTH

\* content: z.string().min(100).max(100000)
contentValid(content) ==
    content.present /\ Len(content.value) >= CONTENT_MIN_LENGTH
                    /\ Len(content.value) <= CONTENT_MAX_LENGTH

\* The paths at which the schema reports an issue (none: the body parses).
UrlUploadSchema(zod, body) ==
    {p \in {"url"} : ~(/\ body.url.present
                       /\ isUrl(body.url.value)
                       /\ httpsOnly(urlOutput(zod, body.url.value)))}
        \cup {p \in {"title"} : ~titleValid(body.title, TRUE)}

TextUploadSchema(body) ==
    {p \in {"content"} : ~contentValid(body.content)}
        \cup {p \in {"title"} : ~titleValid(body.title, FALSE)}

\* z.discriminatedUnion('type', ...)
DocumentUploadSchema(zod, body) ==
    IF body.type = "url" THEN UrlUploadSchema(zod, body)
    ELSE IF body.type = "text" THEN TextUploadSchema(body)
    ELSE {"type"}

\* ---- The URL guard ----
\* The special ranges of IPv4 addresses, as ipaddr.js names them; o is the
\* four octets of the address.
ipv4Range(o) ==
    IF o[1] = 0 THEN "unspecified"
    ELSE IF o = <<255, 255, 255, 255>> THEN "broadcast"
    ELSE IF o[1] \in 224..239 THEN "multicast"
    ELSE IF o[1] = 169 /\ o[2] = 254 THEN "linkLocal"
    ELSE IF o[1] = 127 THEN "loopback"
    ELSE IF o[1] = 100 /\ o[2] \in 64..127 THEN "carrierGradeNat"
    ELSE IF \/ o[1] = 10
            \/ o[1] = 172 /\ o[2] \in 16..31
            \/ o[1] = 192 /\ o[2] = 168
    THEN "private"
    ELSE IF \/ o[1] = 192 /\ o[2] = 0 /\ o[3] \in {0, 2}
            \/ o[1] = 192 /\ o[2] = 88 /\ o[3] = 99
            \/ o[1] = 198 /\ o[2] \in 18..19
            \/ o[1] = 198 /\ o[2] = 51 /\ o[3] = 100
            \/ o[1] = 203 /\ o[2] = 0 /\ o[3] = 113
            \/ o[1] >= 240
    THEN "reserved"
    ELSE "unicast"

BLOCKED_RANGES ==
    {"loopback", "private", "linkLocal", "uniqueLocal", "multicast", "reserved"}

\* ipaddr.parse on a dotted-decimal IPv4 address (what resolve4 answers):
\* the four octets, or <<>> where parse throws.
ipaddrParse(ip) ==
    LET parts == splitAny(ip, {"."}) IN
    IF /\ Len(parts) = 4
       /\ \A i \in 1..4 : isDecimal(parts[i]) /\ Len(parts[i]) <= 3
       /\ \A j \in 1..4 : decimalValue(parts[j]) <= 255
    THEN [i \in 1..4 |-> decimalValue(parts[i])]
    ELSE <<>>

\* A check that blocks the private ranges only.
isPrivateIpPrivateOnly(ip) ==
    LET o == ipaddrParse(ip) IN
    IF o = <<>> THEN TRUE ELSE ipv4Range(o) = "private"

isPrivateIp(ip) ==
    LET o == ipaddrParse(ip) IN
    IF o = <<>> THEN TRUE ELSE ipv4Range(o) \in BLOCKED_RANGES

\* validateUrl up to its await: new URL throws, the protocol is refused, or
\* the A records of the host are asked for.
validateUrlBeforeDns(urlString) ==
    only({IF ~url.ok THEN [step |-> "threw", error |-> "Invalid URL", hostname |-> ""]
          ELSE IF url.protocol # "https:"
          THEN [step |-> "invalid", error |-> "Only HTTPS URLs allowed", hostname |-> ""]
          ELSE [step |-> "resolve4", error |-> "", hostname |-> url.hostname] :
            url \in {parseUrl(urlString)}})

\* validateUrl after its await: resolve4 has rejected, or answered with a
\* non-empty set of addresses.
validateUrlAfterDns(answer) ==
    IF ~answer.ok THEN [step |-> "threw", error |-> "ENOTFOUND"]
    ELSE IF \E ip \in answer.addresses : isPrivateIp(ip)
    THEN [step |-> "invalid", error |-> "URL resolves to private IP"]
    ELSE [step |-> "valid", error |-> ""]

\* ---- The environment: requests and DNS ----
\* A text of n characters.
RECURSIVE TextOfLength(_)
TextOfLength(n) ==
    IF n = 0 THEN ""
    ELSE IF n % 2 = 0 THEN LET half == TextOfLength(n \div 2) IN half \o half
    ELSE "a" \o TextOfLength(n - 1)

ContentLengths ==
    {0, CONTENT_MIN_LENGTH - 1, CONTENT_MIN_LENGTH, CONTENT_MIN_LENGTH + 1,
     CONTENT_MAX_LENGTH, CONTENT_MAX_LENGTH + 1}

TitleLengths == {0, TITLE_MIN_LENGTH, TITLE_MAX_LENGTH, TITLE_MAX_LENGTH + 1}

Titles == {Missing} \cup {Present(TextOfLength(n)) : n \in TitleLengths}

TextBodies ==
    {[type |-> "text", url |-> Missing, content |-> c, title |-> t] :
        c \in {Missing} \cup {Present(TextOfLength(n)) : n \in ContentLengths},
        t \in Titles}

\* URLs of a public host name, of address literals, and malformed ones.
HttpsUrls ==
    {"https://example.com/article", "https://Example.COM:443/a?b#c",
     "https://user@example.com/", "https://10.0.0.1/", "https://127.0.0.1/",
     "https://169.254.169.254/latest/meta-data", "https://127.1/",
     "https://[::1]/", "https://", "https://exa mple.com/",
     "https://h.example:000443/", "https://h.example:65536/", "https://[zz]/",
     "https://4294967295/", "https://0x7f.1/", "https://010.0.0.1/",
     "https://%65xample.com/", "https://example.com",
     "https://b%C3%BCcher.example/", "https://xn--a/", "https://xn--a-/",
     "https://example.com/a/.b/../c^d"}

OtherUrls ==
    {"http://example.com/article", "HTTPS://example.com/", " https://example.com/",
     "https:/example.com", "ftp://example.com/", "javascript:alert(1)",
     "file:///etc/passwd", "file://Example.com:80/x", "example.com", ""}

Urls == HttpsUrls \cup OtherUrls

UrlBodies ==
    {[type |-> "url", url |-> u, content |-> Missing, title |-> t] :
        u \in {Missing} \cup {Present(s) : s \in Urls},
        t \in {Missing, Present("A title")}}

\* The name whose records vary, and a public address.
ZoneName == "example.com"

PublicV4 == "93.184.216.34"

\* The addresses a name may have.
V4Pool ==
    {PublicV4, "10.0.0.1", "172.16.0.1", "192.168.1.1", "127.0.0.1",
     "169.254.169.254", "224.0.0.1", "240.0.0.1"}

V6Pool == {"2606:2800:220:1::1", "::1"}

NoAnswer == [ok |-> FALSE, addresses |-> {}]

Answer(addresses) == [ok |-> TRUE, addresses |-> addresses]

\* The records of a host: an address literal has itself at most (a resolver
\* may refuse the query); example.com has one or two A records or none, and
\* at most one AAAA record; any other name has a public A record or none.
DnsRecords(hostname) ==
    IF hostname = "" \/ startsWith(hostname, "[")
    THEN {[a |-> NoAnswer, aaaa |-> {}]}
    ELSE IF ipaddrParse(hostname) # <<>>
    THEN {[a |-> NoAnswer, aaaa |-> {}], [a |-> Answer({hostname}), aaaa |-> {}]}
    ELSE IF hostname # ZoneName
    THEN {[a |-> NoAnswer, aaaa |-> {}], [a |-> Answer({PublicV4}), aaaa |-> {}]}
    ELSE {[a |-> ans, aaaa |-> six] :
            ans \in {NoAnswer} \cup {Answer({x}) : x \in V4Pool}
                      \cup {Answer({PublicV4, y}) : y \in V4Pool},
            six \in {{}} \cup {{z} : z \in V6Pool}}

NoUpload ==
    [entry |-> "none", pc |-> "off", body |-> [type |-> "none", url |-> Missing,
     content |-> Missing, title |-> Missing], zod |-> "input", url |-> "",
     issues |-> {}, verdict |-> "none", error |-> "", status |-> 0]

UpIdle ==
    /\ upload = NoUpload
    /\ dns = [a |-> NoAnswer, aaaa |-> {}]
    /\ externalCalls = <<>>

\* The host the guard will ask the resolver about ("" when it never asks).
HostOf(body) == IF body.url.present THEN parseUrl(body.url.value).hostname ELSE ""

\* One request to the upload route with a JSON body, or one direct call of
\* the secure fetcher (which does not use the schema) on a URL, in a build
\* with one of the zod releases.
UpInit ==
    /\ externalCalls = <<>>
    /\ \E entry \in {"upload", "fetchText"} :
       \E body \in IF entry = "upload" THEN TextBodies \cup UrlBodies
                   ELSE {b \in UrlBodies : b.url.present /\ ~b.title.present} :
       \E zod \in IF entry = "upload" THEN ZodBuilds ELSE {"input"} :
          /\ upload = [NoUpload EXCEPT !.entry = entry, !.body = body, !.zod = zod,
                          !.url = IF entry = "upload" THEN "" ELSE body.url.value,
                          !.pc = IF entry = "upload" THEN "received" ELSE "accepted"]
          /\ dns \in DnsRecords(HostOf(body))

ExternalCall(kind, target) == [kind |-> kind, target |-> target]

\* The route parses the body against the schema: on an issue it answers 400
\* before anything else is done.
ParseBody ==
    /\ upload.pc = "received"
    /\ \E issues \in {DocumentUploadSchema(upload.zod, upload.body)} :
       upload' = [upload EXCEPT !.issues = issues,
                     !.url = IF issues = {} /\ upload.body.type = "url"
                             THEN urlOutput(upload.zod, upload.body.url.value) ELSE "",
                     !.pc = IF issues = {} THEN "accepted" ELSE "rejected",
                     !.status = IF issues = {} THEN 0 ELSE 400]
    /\ UNCHANGED <<dns, externalCalls>>
    /\ UNCHANGED upOthers

\* A raw text goes down the pipeline: it is embedded and its vectors are
\* written.
ProcessText ==
    /\ upload.pc = "accepted"
    /\ upload.body.type = "text"
    /\ upload' = [upload EXCEPT !.pc = "processed", !.status = 200]
    /\ externalCalls' = externalCalls \o
          <<ExternalCall("embedding", "mistral"), ExternalCall("vector_upsert", "pinecone")>>
    /\ UNCHANGED dns
    /\ UNCHANGED upOthers

\* The fetcher calls validateUrl, which runs to its await of the resolver or
\* ends before it.
CallValidateUrl ==
    /\ upload.pc = "accepted"
    /\ upload.body.type = "url"
    /\ \E res \in {validateUrlBeforeDns(upload.url)} :
       IF res.step = "resolve4"
       THEN /\ upload' = [upload EXCEPT !.pc = "resolving"]
            /\ externalCalls' = Append(externalCalls, ExternalCall("dns", res.hostname))
       ELSE /\ upload' = [upload EXCEPT !.pc = "blocked", !.verdict = res.step,
                                        !.error = res.error]
            /\ UNCHANGED externalCalls
    /\ UNCHANGED dns
    /\ UNCHANGED upOthers

\* The resolver answers and validateUrl runs to its end.
ResolverAnswers ==
    /\ upload.pc = "resolving"
    /\ LET res == validateUrlAfterDns(dns.a) IN
       upload' = [upload EXCEPT !.pc = IF res.step = "valid" THEN "validated" ELSE "blocked",
                                !.verdict = res.step, !.error = res.error]
    /\ UNCHANGED <<dns, externalCalls>>
    /\ UNCHANGED upOthers

\* The URL was found valid: the fetcher requests it.
Fetch ==
    /\ upload.pc = "validated"
    /\ upload' = [upload EXCEPT !.pc = "fetched"]
    /\ externalCalls' = Append(externalCalls, ExternalCall("fetch", upload.url))
    /\ UNCHANGED dns
    /\ UNCHANGED upOthers

UpNext ==
    \/ ParseBody
    \/ ProcessText
    \/ CallValidateUrl
    \/ ResolverAnswers
    \/ Fetch

(***************************************************************************)
(* Clerk webhook: the users table kept in step with the identity provider  *)
(***************************************************************************)
NDeliveries == 2

Deliveries == 1..NDeliveries

ClerkIds == {"user_1", "user_2"}

\* evt.data.id of an event that carries none.
NoClerkId == ""

EventTypes == {"user.created", "user.deleted", "user.updated"}

\* What a request is like: well-formed and signed; without one of the three
\* Svix headers; with a body that is not JSON; with a signature that does
\* not verify.
Signatures == {"valid", "missing_headers", "not_json", "invalid"}

\* The row db.insert(usersSchema).values({ clerkId }) writes; its id is a
\* fresh one, named here after the delivery that wrote it.
UserRow(id, clerkId) == [id |-> id, clerkId |-> clerkId]

\* users.clerk_id is unique: the insert of a second row with the clerk id of
\* an existing one is refused.
violatesUniqueClerkId(rows, clerkId) == \E u \in rows : u.clerkId = clerkId

\* db.query.usersSchema.findFirst({ where: eq(clerkId, id) })
findFirst(rows, clerkId) == \E u \in rows : u.clerkId = clerkId

\* documents.user_id references users.id with ON DELETE no action: the
\* delete of a user row that a document still references is refused.
violatesUserReference(rows, docs, clerkId) ==
    \E u \in rows, d \in docs : u.clerkId = clerkId /\ d.userId = u.id

\* db.delete(usersSchema).where(eq(clerkId, id)) when it is not refused.
deleteUser(rows, clerkId) == {u \in rows : u.clerkId # clerkId}

\* The rows that concern a clerk id: its user rows, the documents that
\* reference them and the chunks of those documents.
RowsOfClerkId(rows, docs, chs, clerkId) ==
    LET us == {u \in rows : u.clerkId = clerkId}
        ds == {d \in docs : \E u \in us : d.userId = u.id}
    IN  [users |-> us, documents |-> ds,
         chunks |-> {c \in chs : \E d \in ds : c.documentId = d.id}]

NoRows == [users |-> {}, documents |-> {}, chunks |-> {}]

\* A delivery: where its handler stands (pc), the request, what the
\* database answered to the statement the handler awaits (existing,
\* dbError), and the response (status; error names what made the handler
\* throw, which the framework answers with 500).
NoDelivery ==
    [pc |-> "off", type |-> "none", clerkId |-> NoClerkId, signature |-> "valid",
     existing |-> FALSE, dbError |-> "none", status |-> 0, error |-> "none",
     left |-> NoRows]

HookIdle ==
    /\ webhookSecret = TRUE
    /\ users = {}
    /\ userDocuments = {}
    /\ userChunks = {}
    /\ deliveries = [d \in Deliveries |-> NoDelivery]

\* The tables before the deliveries: empty, or user_1 registered, without
\* documents or with one document of one chunk.
HookTables ==
    {[users |-> {}, documents |-> {}, chunks |-> {}],
     [users |-> {UserRow(0, "user_1")}, documents |-> {}, chunks |-> {}],
     [users |-> {UserRow(0, "user_1")},
      documents |-> {[id |-> 1, userId |-> 0]},
      chunks |-> {[documentId |-> 1, position |-> 0]}]}

\* The events delivered: user.created and user.deleted for either user,
\* user.deleted without an id, and an event the handler does not know.
HookEvents ==
    {[type |-> "user.created", clerkId |-> id] : id \in ClerkIds}
        \cup {[type |-> "user.deleted", clerkId |-> id] : id \in ClerkIds \cup {NoClerkId}}
        \cup {[type |-> "user.updated", clerkId |-> "user_1"]}

\* Deliveries of the provider, each of any event; the first one may be
\* malformed or wrongly signed.
HookInit ==
    /\ webhookSecret \in BOOLEAN
    /\ \E t \in HookTables :
          /\ users = t.users
          /\ userDocuments = t.documents
          /\ userChunks = t.chunks
    /\ \E events \in [Deliveries -> HookEvents], sig \in Signatures :
          deliveries = [d \in Deliveries |->
              [NoDelivery EXCEPT !.pc = "received", !.type = events[d].type,
                                 !.clerkId = events[d].clerkId,
                                 !.signature = IF d = 1 THEN sig ELSE "valid"]]

\* POST, lines 11-19: without the secret the request is answered 500;
\* otherwise the handler awaits headers().
Post(d) ==
    /\ deliveries[d].pc = "received"
    /\ deliveries' = [deliveries EXCEPT ![d] =
          IF ~webhookSecret
          THEN [@ EXCEPT !.pc = "answered", !.status = 500]
          ELSE [@ EXCEPT !.pc = "headers"]]
    /\ UNCHANGED <<webhookSecret, users, userDocuments, userChunks>>
    /\ UNCHANGED hookOthers

\* POST, lines 19-30: the headers are there. Without the three Svix headers
\* the request is answered 400; otherwise the handler awaits req.json().
ReadHeaders(d) ==
    /\ deliveries[d].pc = "headers"
    /\ deliveries' = [deliveries EXCEPT ![d] =
          IF deliveries[d].signature = "missing_headers"
          THEN [@ EXCEPT !.pc = "answered", !.status = 400]
          ELSE [@ EXCEPT !.pc = "body"]]
    /\ UNCHANGED <<webhookSecret, users, userDocuments, userChunks>>
    /\ UNCHANGED hookOthers

\* POST, lines 30-82, up to the next await: req.json() has settled. A body
\* that is not JSON makes the handler throw (line 30 is outside the try); a
\* payload that does not verify is answered 400. A verified user.created
\* event sends the lookup and a verified user.deleted event with an id the
\* delete, and the handler awaits it; any other event, and a user.deleted
\* event without an id, is answered 200.
Verify(d) ==
    /\ deliveries[d].pc = "body"
    /\ LET c == deliveries[d] IN
       deliveries' = [deliveries EXCEPT ![d] =
          IF c.signature = "not_json"
          THEN [c EXCEPT !.pc = "answered", !.status = 500, !.error = "invalid_json"]
          ELSE IF c.signature # "valid"
          THEN [c EXCEPT !.pc = "answered", !.status = 400]
          ELSE IF c.type = "user.created"
          THEN [c EXCEPT !.pc = "finding"]
          ELSE IF c.type = "user.deleted" /\ c.clerkId # NoClerkId
          THEN [c EXCEPT !.pc = "deleting"]
          ELSE [c EXCEPT !.pc = "answered", !.status = 200]]
    /\ UNCHANGED <<webhookSecret, users, userDocuments, userChunks>>
    /\ UNCHANGED hookOthers

\* user.created, lines 53-55: the database runs the lookup.
FindExisting(d) ==
    /\ deliveries[d].pc = "finding"
    /\ deliveries' = [deliveries EXCEPT ![d] =
          [@ EXCEPT !.pc = "found",
                    !.existing = findFirst(users, deliveries[d].clerkId)]]
    /\ UNCHANGED <<webhookSecret, users, userDocuments, userChunks>>
    /\ UNCHANGED hookOthers

\* user.created, lines 57-64 and 82: the handler resumes with the result of
\* the lookup; with a row found it answers 200, without one it sends the
\* insert and awaits it.
FindResumes(d) ==
    /\ deliveries[d].pc = "found"
    /\ deliveries' = [deliveries EXCEPT ![d] =
          IF deliveries[d].existing
          THEN [@ EXCEPT !.pc = "answered", !.status = 200]
          ELSE [@ EXCEPT !.pc = "inserting"]]
    /\ UNCHANGED <<webhookSecret, users, userDocuments, userChunks>>
    /\ UNCHANGED hookOthers

\* user.created, lines 58-60: the database runs the insert, or refuses it.
InsertUser(d) ==
    /\ deliveries[d].pc = "inserting"
    /\ IF violatesUniqueClerkId(users, deliveries[d].clerkId)
       THEN /\ deliveries' = [deliveries EXCEPT ![d] =
                  [@ EXCEPT !.pc = "written", !.dbError = "users_clerk_id_unique"]]
            /\ UNCHANGED users
       ELSE /\ users' = users \cup {UserRow(d, deliveries[d].clerkId)}
            /\ deliveries' = [deliveries EXCEPT ![d] = [@ EXCEPT !.pc = "written"]]
    /\ UNCHANGED <<webhookSecret, userDocuments, userChunks>>
    /\ UNCHANGED hookOthers

\* user.deleted, line 72: the database runs the delete, or refuses it.
DeleteUser(d) ==
    /\ deliveries[d].pc = "deleting"
    /\ IF violatesUserReference(users, userDocuments, deliveries[d].clerkId)
       THEN /\ deliveries' = [deliveries EXCEPT ![d] =
                  [@ EXCEPT !.pc = "written",
                            !.dbError = "documents_user_id_users_id_fk",
                            !.left = RowsOfClerkId(users, userDocuments, userChunks,
                                                   deliveries[d].clerkId)]]
            /\ UNCHANGED users
       ELSE /\ users' = deleteUser(users, deliveries[d].clerkId)
            /\ deliveries' = [deliveries EXCEPT ![d] =
                  [@ EXCEPT !.pc = "written",
                            !.left = RowsOfClerkId(users', userDocuments, userChunks,
                                                   deliveries[d].clerkId)]]
    /\ UNCHANGED <<webhookSecret, userDocuments, userChunks>>
    /\ UNCHANGED hookOthers

\* Lines 58-65 and 72-82: the handler resumes after the insert or the
\* delete. A refused statement rejects the awaited promise and the handler
\* throws; otherwise the request is answered 200.
WriteResumes(d) ==
    /\ deliveries[d].pc = "written"
    /\ deliveries' = [deliveries EXCEPT ![d] =
          IF deliveries[d].dbError # "none"
          THEN [@ EXCEPT !.pc = "answered", !.status = 500,
                         !.error = deliveries[d].dbError]
          ELSE [@ EXCEPT !.pc = "answered", !.status = 200]]
    /\ UNCHANGED <<webhookSecret, users, userDocuments, userChunks>>
    /\ UNCHANGED hookOthers

HookNext ==
    \/ \E d \in Deliveries : Post(d)
    \/ \E d \in Deliveries : ReadHeaders(d)
    \/ \E d \in Deliveries : Verify(d)
    \/ \E d \in Deliveries : FindExisting(d)
    \/ \E d \in Deliveries : FindResumes(d)
    \/ \E d \in Deliveries : InsertUser(d)
    \/ \E d \in Deliveries : DeleteUser(d)
    \/ \E d \in Deliveries : WriteResumes(d)

(***************************************************************************)
(* Pinecone: creation of the vector index                                  *)
(***************************************************************************)
PINECONE_INDEX_NAME == "italian-learning"

NEnsureCalls == 3

EnsureCalls == 1..NEnsureCalls

\* A call: where it stands (pc), the listing the service answered with
\* (listed) and what the call made of it (indexExists).
NoEnsureCall ==
    [pc |-> "off", listed |-> {}, indexExists |-> FALSE, error |-> "none"]

PineIdle ==
    /\ pineconeReady = TRUE
    /\ indexes = {}
    /\ createRequests = <<>>
    /\ ensureCalls = [c \in EnsureCalls |-> NoEnsureCall]

\* Calls of ensureIndexExists, one after another or overlapping, against a
\* project without indexes, with the index, or with another index.
PineInit ==
    /\ pineconeReady \in BOOLEAN
    /\ indexes \in {{}, {PINECONE_INDEX_NAME}, {"another-index"}}
    /\ createRequests = <<>>
    /\ ensureCalls = [c \in EnsureCalls |-> [NoEnsureCall EXCEPT !.pc = "ready"]]

\* indexes.indexes?.some(idx => idx.name === PINECONE_INDEX_NAME)
indexExists(listed) == PINECONE_INDEX_NAME \in listed

\* ensureIndexExists, lines 55-59: without a client it throws; with one it
\* asks for the list of indexes and awaits it.
EnsureBegin(c) ==
    /\ ensureCalls[c].pc = "ready"
    /\ ensureCalls' = [ensureCalls EXCEPT ![c] =
          IF ~pineconeReady
          THEN [@ EXCEPT !.pc = "failed", !.error = "Pinecone client not initialized"]
          ELSE [@ EXCEPT !.pc = "listing"]]
    /\ UNCHANGED <<pineconeReady, indexes, createRequests>>
    /\ UNCHANGED pineOthers

\* pinecone.listIndexes(), line 59: the service answers with the indexes it
\* has at that moment.
ListAnswers(c) ==
    /\ ensureCalls[c].pc = "listing"
    /\ ensureCalls' = [ensureCalls EXCEPT ![c] =
          [@ EXCEPT !.pc = "listed", !.listed = indexes]]
    /\ UNCHANGED <<pineconeReady, indexes, createRequests>>
    /\ UNCHANGED pineOthers

\* Lines 59-64: the call resumes with the listing; it returns if the index
\* is in it, and sends createIndex and awaits it otherwise.
ListResumes(c) ==
    /\ ensureCalls[c].pc = "listed"
    /\ IF indexExists(ensureCalls[c].listed)
       THEN /\ ensureCalls' = [ensureCalls EXCEPT ![c] =
                  [@ EXCEPT !.pc = "done", !.indexExists = TRUE]]
            /\ UNCHANGED createRequests
       ELSE /\ ensureCalls' = [ensureCalls EXCEPT ![c] = [@ EXCEPT !.pc = "creating"]]
            /\ createRequests' = Append(createRequests,
                  [by |-> c, name |-> PINECONE_INDEX_NAME, outcome |-> "pending"])
    /\ UNCHANGED <<pineconeReady, indexes>>
    /\ UNCHANGED pineOthers

\* The position in the log of the create request of call c with the given
\* outcome.
CreateOf(c, outcome) ==
    CHOOSE k \in 1..Len(createRequests) :
        createRequests[k].by = c /\ createRequests[k].outcome = outcome

\* pinecone.createIndex, lines 64-75, at the service: it refuses a request
\* for a name it already has (409); otherwise the index is created, and is
\* listed from then on.
CreateAnswers(c) ==
    /\ ensureCalls[c].pc = "creating"
    /\ \E k \in 1..Len(createRequests) :
          createRequests[k].by = c /\ createRequests[k].outcome = "pending"
    /\ LET k == CreateOf(c, "pending") IN
       IF createRequests[k].name \in indexes
       THEN /\ createRequests' = [createRequests EXCEPT ![k].outcome = "conflict"]
            /\ UNCHANGED indexes
       ELSE /\ createRequests' = [createRequests EXCEPT ![k].outcome = "created"]
            /\ indexes' = indexes \cup {createRequests[k].name}
    /\ UNCHANGED <<pineconeReady, ensureCalls>>
    /\ UNCHANGED pineOthers

\* Lines 64-77: the awaited createIndex settles. Refused, it rejects and
\* the call throws; accepted, it resolves once the index is ready
\* (waitUntilReady: true) and the call returns.
CreateResumes(c) ==
    /\ ensureCalls[c].pc = "creating"
    /\ \E k \in 1..Len(createRequests) :
          createRequests[k].by = c /\ createRequests[k].outcome # "pending"
    /\ ensureCalls' = [ensureCalls EXCEPT ![c] =
          IF \E k \in 1..Len(createRequests) :
                createRequests[k].by = c /\ createRequests[k].outcome = "conflict"
          THEN [@ EXCEPT !.pc = "failed", !.error = "ALREADY_EXISTS"]
          ELSE [@ EXCEPT !.pc = "done"]]
    /\ UNCHANGED <<pineconeReady, indexes, createRequests>>
    /\ UNCHANGED pineOthers

PineNext ==
    \/ \E c \in EnsureCalls : EnsureBegin(c)
    \/ \E c \in EnsureCalls : ListAnswers(c)
    \/ \E c \in EnsureCalls : ListResumes(c)
    \/ \E c \in EnsureCalls : CreateAnswers(c)
    \/ \E c \in EnsureCalls : CreateResumes(c)

(***************************************************************************)
(* Specifications                                                          *)
(***************************************************************************)
\* A state of the sanitizer in which no call is in progress.
SanIdle ==
    /\ sanPc = "off"
    /\ sanInput = <<>>
    /\ sanMinLength = DEFAULT_MIN_LENGTH
    /\ sanOut = <<>>
    /\ sanOut2 = <<>>
    /\ sanResult = NoResult
    /\ sanEmpty = FALSE

\* A state of the request-facing components in which nothing is in progress.
EdgeIdle == UpIdle /\ HookIdle /\ PineIdle

\* A state of the pipeline's components in which nothing is in progress.
CoreIdle == SanIdle /\ TokInit /\ EmbIdle /\ OrcIdle

\* The sanitizer alone: one call on every input text.
SanitizerInit == SanInit /\ TokInit /\ EmbIdle /\ OrcIdle /\ EdgeIdle

SpecSanitizer == SanitizerInit /\ [][SanNext]_vars

\* The token counter alone: concurrent callers of one module instance.
TokenCounterInit == SanIdle /\ TokInit /\ EmbIdle /\ OrcIdle /\ EdgeIdle

SpecTokenCounter == TokenCounterInit /\ [][TokRaceNext]_vars

\* The token counter's functions on every text and limit, one caller.
SpecTokenFunctions == TokenCounterInit /\ [][TokSoloNext]_vars

\* The limit functions on every text and limit, whole or not, one caller.
SpecTokenLimits == TokenCounterInit /\ [][TokLimitNext]_vars

\* One embedding call, single or batched, against the provider.
EmbeddingInit == SanIdle /\ TokInit /\ EmbInit /\ OrcIdle /\ EdgeIdle

SpecEmbedding == EmbeddingInit /\ [][EmbNext]_vars

\* Two calls in one process at the same time, sharing the client and the
\* provider: two of createEmbeddingsBatched, as two ingestions make them, or
\* one of createEmbeddingsBatched and one of verifyConnection.
ConcurrentSizes == {1, MAX_BATCH_SIZE + 1}

EmbConcurrentInit ==
    /\ mistralReady = TRUE
    /\ now = 0
    /\ requests = <<>>
    /\ \E n1 \in ConcurrentSizes :
          \/ \E n2 \in ConcurrentSizes :
                runs = [r \in Runs |-> NewRun("batched",
                                             TextList(IF r = 1 THEN n1 ELSE n2, "asc"))]
          \/ runs = [r \in Runs |-> IF r = 1 THEN NewRun("batched", TextList(n1, "asc"))
                                   ELSE NewRun("verify", <<>>)]

EmbeddingConcurrentInit == SanIdle /\ TokInit /\ EmbConcurrentInit /\ OrcIdle /\ EdgeIdle

SpecEmbeddingConcurrent == EmbeddingConcurrentInit /\ [][EmbNext]_vars

\* One call with the client's retries made explicit: of createEmbeddings on
\* one or two texts, of createEmbeddingsBatched on one text, or of
\* verifyConnection.
EmbRetryInit ==
    /\ mistralReady = TRUE
    /\ now = 0
    /\ requests = <<>>
    /\ \/ \E n \in 1..2 :
             runs = [r \in Runs |-> IF r = 1 THEN NewRun("single", TextList(n, "asc"))
                                    ELSE NoRun]
       \/ runs = [r \in Runs |-> IF r = 1 THEN NewRun("batched", TextList(1, "asc"))
                                ELSE NoRun]
       \/ runs = [r \in Runs |-> IF r = 1 THEN NewRun("verify", <<>>) ELSE NoRun]

EmbeddingRetryInit == SanIdle /\ TokInit /\ EmbRetryInit /\ OrcIdle /\ EdgeIdle

SpecEmbeddingRetry == EmbeddingRetryInit /\ [][EmbRetryNext]_vars

\* The orchestrator: concurrent submissions and deletions at the quota.
QuotaInit == SanIdle /\ TokInit /\ EmbIdle /\ OrcQuotaInit /\ EdgeIdle

SpecQuota == QuotaInit /\ [][OrcNext]_vars

\* The orchestrator: ingestion, re-ingestion and deletion of a document.
IngestionInit == SanIdle /\ TokInit /\ EmbIdle /\ OrcIngestInit /\ EdgeIdle

SpecIngestion == IngestionInit /\ [][OrcNext]_vars

\* One ingestion, one re-ingestion and deletions of document 1, every call
\* that can take a step eventually taking one.
OrcFairInit ==
    \E held \in 0..1 :
        OrcState(held,
                 [j \in Jobs |-> IF j = 1 THEN "ingest"
                                 ELSE IF j = 2 THEN "reingest" ELSE "delete"],
                 [j \in Jobs |-> 1])

IngestionFairInit == SanIdle /\ TokInit /\ EmbIdle /\ OrcFairInit /\ EdgeIdle

SpecIngestionFair ==
    /\ IngestionFairInit
    /\ [][OrcNext]_vars
    /\ \A j \in Jobs : WF_vars(JobStep(j))

\* One request to the upload route, or one call of the secure fetcher.
UploadInit == CoreIdle /\ UpInit /\ HookIdle /\ PineIdle

SpecUpload == UploadInit /\ [][UpNext]_vars

\* Deliveries of the identity provider's webhook, handled concurrently.
WebhookInit == CoreIdle /\ UpIdle /\ HookInit /\ PineIdle

SpecWebhook == WebhookInit /\ [][HookNext]_vars

\* Calls of ensureIndexExists against one Pinecone project.
PineconeInit == CoreIdle /\ UpIdle /\ HookIdle /\ PineInit

SpecPinecone == PineconeInit /\ [][PineNext]_vars

\* The components side by side in one process.
Init == SanInit /\ TokInit /\ EmbInit /\ OrcIngestInit /\ UpInit /\ HookInit /\ PineInit

Next ==
    SanNext \/ TokNext \/ EmbNext \/ EmbRetryNext \/ OrcNext
        \/ UpNext \/ HookNext \/ PineNext

Spec == Init /\ [][Next]_vars

(***************************************************************************)
(* Claims                                                                  *)
(***************************************************************************)

\* C1: sanitizeText is idempotent: sanitizing the output of sanitizeText
\* again returns that output unchanged.
C1_SanitizeIdempotent == sanPc = "resanitized" => sanOut2 = sanOut

\* Character classes as C2 names them.
C2_IsControl(c) == (c \in 0..31 \/ c \in 127..159) /\ c \notin {TAB, LF}
C2_IsZeroWidth(c) == c \in {8203, 8204, 8205, 65279, 173}
C2_IsBidi(c) == c \in 8234..8238 \/ c \in 8294..8297
C2_IsWhitespace(c) == c \in {9, 10, 11, 12, 13, 32, 160}

C2_Clean(out) ==
    /\ \A i \in 1..Len(out) :
        /\ ~C2_IsControl(out[i])
        /\ ~C2_IsZeroWidth(out[i])
        /\ ~C2_IsBidi(out[i])
        /\ out[i] # CR
    /\ \A i \in 1..(Len(out) - 1) : ~(out[i] = SP /\ out[i + 1] = SP)
    /\ \A i \in 1..(Len(out) - 2) : ~(out[i] = LF /\ out[i + 1] = LF /\ out[i + 2] = LF)
    /\ out # <<>> => ~C2_IsWhitespace(out[1]) /\ ~C2_IsWhitespace(out[Len(out)])

\* C2: the output of sanitizeText holds no control character other than tab
\* and newline, no zero-width or soft-hyphen character, no bidirectional
\* control, no carriage return, no two consecutive spaces, no run of three
\* newlines and no leading or trailing white space, whatever the input mixes.
C2_OutputClean == sanPc = "sanitized" => C2_Clean(sanOut)

\* C2 witness: an input that mixes every class (a control character, a
\* zero-width character, a bidi control, a CR, a space next to a removed
\* character, newlines that become a run of three) was sanitized to a
\* text that still has content.
C2_Witness ==
    /\ sanPc = "sanitized"
    /\ \E i \in 1..Len(sanInput) : CONTROL_CHAR_REGEX(sanInput[i])
    /\ \E i \in 1..Len(sanInput) : ZERO_WIDTH_REGEX(sanInput[i])
    /\ \E i \in 1..Len(sanInput) : BIDI_CONTROL_REGEX(sanInput[i])
    /\ \E i \in 1..Len(sanInput) : sanInput[i] = CR
    /\ \E i \in 1..(Len(sanInput) - 2) :
          sanInput[i] = SP /\ ZERO_WIDTH_REGEX(sanInput[i + 1]) /\ sanInput[i + 2] = SP
    /\ Len(sanOut) >= 4
    /\ \E i \in 1..(Len(sanOut) - 1) : sanOut[i] = LF /\ sanOut[i + 1] = LF

\* The units of the raw text that no removal step of the sanitizer deletes
\* (a carriage return is not deleted: it becomes a newline).
C3_Surviving(text) ==
    Cardinality({i \in 1..Len(text) :
        /\ ~(C2_IsControl(text[i]) /\ text[i] # CR)
        /\ ~C2_IsZeroWidth(text[i])
        /\ ~C2_IsBidi(text[i])})

\* C3: sanitizeAndValidate returns the sanitized text, the length of that
\* sanitized text, and valid exactly when that length is at least minLength;
\* removed characters never count toward the minimum.
C3_ValidateAfterSanitize ==
    sanPc = "validated" =>
        /\ sanResult.text = sanitizeText(sanInput)
        /\ sanResult.length = Len(sanResult.text)
        /\ sanResult.valid <=> (sanResult.length >= sanMinLength)
        /\ sanResult.valid => C3_Surviving(sanInput) >= sanMinLength

\* C3 witness: under the default minimum of 100, a raw text of at least 100
\* units whose sanitized form has 99 was found invalid.
C3_Witness ==
    /\ sanPc = "validated"
    /\ sanMinLength = DEFAULT_MIN_LENGTH
    /\ Len(sanInput) >= DEFAULT_MIN_LENGTH
    /\ sanResult.length = DEFAULT_MIN_LENGTH - 1
    /\ ~sanResult.valid

\* C4: the tokenizer load is started at most once in the process, and every
\* caller of countTokens / truncateToTokenLimit receives the same resolved
\* result, whatever the interleaving of the calls.
C4_SingleInitialization ==
    /\ importsStarted <= 1
    /\ Cardinality(observed) <= 1
    /\ \A p \in Callers : callers[p].pc = "awaiting" => tokenizerPromise # NoPromise
    /\ \A p, q \in Callers :
          callers[p].pc = "done" /\ callers[q].pc = "done" =>
              callers[p].tok = callers[q].tok

\* C4 witness: one caller started the load, another arrived while it was in
\* flight, and both have resumed with the same result of the single load.
C4_Witness ==
    \E p, q \in Callers :
        /\ callers[p].pc = "done" /\ callers[p].startedLoad
        /\ callers[q].pc = "done" /\ callers[q].joined
        /\ callers[p].tok = callers[q].tok
        /\ importsStarted = 1

\* The result a call must have when only the character-ratio estimate
\* (4 characters per token, rounded up) is in use.
C5_UsesEstimate(c) ==
    /\ c.op = "countTokens" =>
          /\ 4 * c.count >= Len(c.text)
          /\ 4 * (c.count - 1) < Len(c.text)
    /\ c.op = "truncateToTokenLimit" =>
          c.out = IF Len(c.text) <= 4 * c.maxTokens
                  THEN c.text
                  ELSE SubSeq(c.text, 1, 4 * c.maxTokens)

\* C5: once the tokenizer load has failed, the cached outcome stays
\* 'unavailable', no further load is ever started, and every call that
\* completes uses the character-ratio estimate.
C5_FallbackPermanent ==
    initFailed =>
        /\ tokenizerPromise = ResolvedNull
        /\ importsStarted = 1
        /\ \A p \in Callers :
              callers[p].pc = "done" =>
                  callers[p].tok = ResolvedNull /\ C5_UsesEstimate(callers[p])

\* C5 witness: a countTokens call that began after the load had failed (it
\* neither started the load nor joined it in flight) has returned the
\* rounded-up estimate of a text whose length is not a multiple of 4.
C5_Witness ==
    /\ initFailed
    /\ \E p \in Callers :
          /\ callers[p].pc = "done"
          /\ callers[p].op = "countTokens"
          /\ ~callers[p].startedLoad /\ ~callers[p].joined
          /\ Len(callers[p].text) = 5
          /\ callers[p].count = 2

C6_IsPrefix(a, b) == Len(a) <= Len(b) /\ a = SubSeq(b, 1, Len(a))

\* C6: truncateToTokenLimit returns the text unchanged when its token count
\* is within maxTokens (the empty text yields the empty text); otherwise, in
\* fallback mode, a prefix of the text whose estimated token count is within
\* maxTokens, and with the tokenizer the decoding of the first maxTokens
\* tokens of the text.
C6_TruncateFits ==
    \A p \in Callers :
        LET c == callers[p] IN
        (c.pc = "done" /\ c.op = "truncateToTokenLimit") =>
            /\ countTokens(c.tok, c.text) <= c.maxTokens => c.out = c.text
            /\ c.text = <<>> => c.out = <<>>
            /\ (countTokens(c.tok, c.text) > c.maxTokens /\ c.tok = ResolvedNull) =>
                  /\ C6_IsPrefix(c.out, c.text)
                  /\ 4 * c.maxTokens >= Len(c.out)
            /\ (countTokens(c.tok, c.text) > c.maxTokens /\ c.tok = ResolvedTokenizer) =>
                  /\ C6_IsPrefix(c.out, c.text)
                  /\ c.out = decode(SubSeq(encode(c.text), 1, c.maxTokens))

\* C6 witness: in fallback mode a text of 5 units was cut to a limit of one
\* token and came back as its first 4 units (estimated at exactly one token).
C6_Witness ==
    \E p \in Callers :
        /\ callers[p].pc = "done"
        /\ callers[p].op = "truncateToTokenLimit"
        /\ callers[p].tok = ResolvedNull
        /\ callers[p].maxTokens = 1
        /\ Len(callers[p].text) = 5
        /\ callers[p].out = SubSeq(callers[p].text, 1, 4)

\* The requests run r has sent to the provider, in sending order.
RequestsOf(r) == SelectSeq(requests, LAMBDA q : q.run = r)

\* Number of batches of a list of n texts: ceil(n / 16).
BatchCount(n) == IF n % 16 = 0 THEN n \div 16 ELSE n \div 16 + 1

\* C7: createEmbeddings fails when given more than 16 texts or an empty
\* list, and fails before any request is sent to the provider: such a call
\* ends in an error with no request in the log, and every request ever sent
\* carries between 1 and 16 texts.
C7_RejectsBeforeRequest ==
    /\ \A r \in Runs :
          (/\ runs[r].kind = "single"
           /\ runs[r].pc \notin {"off", "ready"}
           /\ (Len(runs[r].texts) = 0 \/ Len(runs[r].texts) > 16)) =>
              /\ runs[r].pc = "failed"
              /\ RequestsOf(r) = <<>>
    /\ \A k \in 1..Len(requests) : Len(requests[k].inputs) \in 1..16

\* C7 witness: with the client configured, a call of createEmbeddings on 17
\* texts has failed for the batch size and the provider saw no request.
C7_Witness ==
    /\ mistralReady
    /\ runs[1].kind = "single"
    /\ Len(runs[1].texts) = 17
    /\ runs[1].pc = "failed"
    /\ runs[1].error = "too_many"
    /\ requests = <<>>

\* C8: createEmbeddingsBatched sends the consecutive batches of at most 16
\* texts in input order, one at a time (a batch goes out only after the
\* previous one has returned), never trips createEmbeddings' own size checks,
\* has sent exactly ceil(n/16) requests when it returns, and then, if every
\* batch returned one vector per text, returns n vectors, vector i that of
\* text i.
C8_BatchesInOrder ==
    \A r \in Runs :
        runs[r].kind = "batched" =>
            LET sent == RequestsOf(r)
                texts == runs[r].texts
                n == Len(texts)
            IN  /\ \A j \in 1..Len(sent) :
                      /\ sent[j].inputs =
                            SubSeq(texts, 16 * (j - 1) + 1,
                                   IF 16 * j <= n THEN 16 * j ELSE n)
                      /\ Len(sent[j].inputs) \in 1..16
                      /\ j < Len(sent) =>
                            /\ sent[j].outcome # "pending"
                            /\ sent[j + 1].sentAt >= sent[j].retAt
                /\ runs[r].error \notin {"too_many", "empty"}
                /\ runs[r].pc = "done" =>
                      /\ Len(sent) = BatchCount(n)
                      /\ (\A j \in 1..Len(sent) : sent[j].outcome = "ok") =>
                            /\ Len(runs[r].all) = n
                            /\ \A i \in 1..n : runs[r].all[i] = EmbeddingOf(texts[i])

\* C8 witness: a batched run over 33 texts in descending order has returned
\* after 3 fully answered requests with its 33 vectors.
C8_Witness ==
    /\ runs[1].kind = "batched"
    /\ runs[1].pc = "done"
    /\ Len(runs[1].texts) = 33
    /\ runs[1].texts[1] = 33
    /\ Len(requests) = 3
    /\ \A k \in 1..3 : requests[k].outcome = "ok"
    /\ Len(runs[1].all) = 33

\* C9: the progress callback is invoked once after each successfully
\* embedded batch (as soon as createEmbeddingsBatched resumes with the
\* batch's embeddings); its completed count strictly increases from call to
\* call, never exceeds total, and equals total on the last call of a run
\* that returns; total is the input length on every call.
C9_ProgressCumulative ==
    \A r \in Runs :
        runs[r].kind = "batched" =>
            LET prog == runs[r].progress
                n == Len(runs[r].texts)
                answered == SelectSeq(RequestsOf(r),
                                      LAMBDA q : q.outcome \in Answers)
                resuming == IF runs[r].pc = "returned" /\ runs[r].thrown = "none"
                            THEN 1 ELSE 0
            IN  /\ Len(prog) = Len(answered) - resuming
                /\ \A j \in 1..Len(prog) :
                      /\ prog[j][2] = n
                      /\ prog[j][1] <= n
                      /\ prog[j][1] >= 1
                      /\ j > 1 => prog[j][1] > prog[j - 1][1]
                /\ (runs[r].pc = "done" /\ n >= 1) =>
                      /\ Len(prog) >= 1
                      /\ prog[Len(prog)][1] = n

\* C9 witness: a batched run over 33 texts has returned after reporting
\* (16, 33), (32, 33) and (33, 33).
C9_Witness ==
    /\ runs[1].kind = "batched"
    /\ runs[1].pc = "done"
    /\ runs[1].progress = << <<16, 33>>, <<32, 33>>, <<33, 33>> >>

\* C10: within one batched run at least the full inter-batch delay (31 s)
\* lies between the return of every batch and the sending of the next, no
\* delay follows the final batch, a run that returns after k >= 1 batches has
\* waited exactly k - 1 times, and it returns at the moment the last batch
\* returned.
C10_DelayBetweenBatches ==
    \A r \in Runs :
        runs[r].kind = "batched" =>
            LET sent == RequestsOf(r)
                n == Len(runs[r].texts)
            IN  /\ \A j \in 1..(Len(sent) - 1) :
                      sent[j + 1].sentAt >= sent[j].retAt + 31
                /\ runs[r].pc = "sleeping" =>
                      /\ sent # <<>>
                      /\ Len(sent) < BatchCount(n)
                      /\ runs[r].wakeAt = sent[Len(sent)].retAt + 31
                /\ sent = <<>> => runs[r].waits = 0
                /\ sent # <<>> =>
                      /\ runs[r].waits \in {Len(sent) - 1, Len(sent)}
                      /\ runs[r].waits = Len(sent) => runs[r].pc = "sleeping"
                /\ (runs[r].pc = "done" /\ n >= 1) =>
                      /\ runs[r].waits = BatchCount(n) - 1
                      /\ runs[r].endedAt = sent[Len(sent)].retAt
                /\ (runs[r].pc = "done" /\ n = 0) => runs[r].waits = 0

\* C10 witness: a batched run over 33 texts (3 batches) has returned having
\* waited twice, at the time its third batch returned.
C10_Witness ==
    /\ runs[1].kind = "batched"
    /\ runs[1].pc = "done"
    /\ Len(runs[1].texts) = 33
    /\ runs[1].waits = 2
    /\ Len(requests) = 3
    /\ requests[2].sentAt - requests[1].retAt >= 31
    /\ requests[3].sentAt - requests[2].retAt >= 31
    /\ runs[1].endedAt = requests[3].retAt

\* C11: the provider's rate ceiling is respected by the process as a whole:
\* whatever embedding calls run in the process, at most RATE_LIMIT_REQUESTS
\* requests are sent to the provider within any one rate-limit period (the
\* period ending at the sending of any request).
C11_SentWithinPeriod(k) ==
    {j \in 1..Len(requests) :
        /\ requests[j].sentAt <= requests[k].sentAt
        /\ requests[j].sentAt > requests[k].sentAt - RATE_LIMIT_PERIOD}

C11_RateCeilingRespected ==
    \A k \in 1..Len(requests) :
        Cardinality(C11_SentWithinPeriod(k)) <= RATE_LIMIT_REQUESTS

\* C12: embedding errors are handled by kind. A validation error of the
\* provider ends the request at that attempt: createEmbeddings has failed
\* with the validation message and no retry is pending. A transient failure
\* is retried, only while at most 300 s have elapsed since the first
\* attempt, after waits that double from 1 s up to the 60 s cap; the error
\* is surfaced by the first failure later than 300 s, so a request makes at
\* most 10 retries and ends within 300 + 60 s plus one answer's latency.
C12_ValidationOutcomes == {"sdk_validation", "http_validation"}

C12_Surfaced(rec, message) ==
    IF rec.kind = "single" THEN rec.pc = "failed" /\ rec.error = message
    ELSE \/ rec.pc = "returned" /\ rec.thrown = message
         \/ rec.kind = "batched" /\ rec.pc = "failed" /\ rec.error = message
         \/ rec.kind = "verify" /\ rec.pc = "done" /\ ~rec.connected

C12_ErrorsHandledByKind ==
    \A k \in 1..Len(requests) :
        LET q == requests[k]
            rec == runs[q.run]
        IN  /\ \A j \in 1..Len(q.waits) :
                  q.waits[j] = IF j = 1 THEN 1 ELSE Min(2 * q.waits[j - 1], 60)
            /\ Len(q.waits) <= 10
            /\ q.waits # <<>> => q.failure \in AttemptFailures /\ q.failedAfter <= 300
            /\ q.outcome \in C12_ValidationOutcomes =>
                  /\ C12_Surfaced(rec, createEmbeddingsError(q.outcome))
                  /\ createEmbeddingsError(q.outcome) # createEmbeddingsError("transient")
                  /\ q.retryAt = -1
                  /\ k = Len(requests)
            /\ q.outcome = "transient" =>
                  /\ C12_Surfaced(rec, createEmbeddingsError("transient"))
                  /\ Len(q.waits) >= 1
                  /\ q.retAt - q.sentAt > 300
            /\ q.retAt # -1 => q.retAt - q.sentAt <= 300 + 60 + MaxLatency

\* A transient error was surfaced after the full series of 10 retries, and
\* the waits had reached the cap.
C12_Witness ==
    \E k \in 1..Len(requests) :
        /\ requests[k].outcome = "transient"
        /\ Len(requests[k].waits) = 10
        /\ requests[k].waits[10] = 60

\* C13: the per-owner document quota is enforced atomically. After any
\* interleaving of submissions and deletions the owner never has more than
\* DOCUMENT_QUOTA documents (nor more reserved); and when the owner held
\* DOCUMENT_QUOTA - 1 documents and every job was a submission, then of the
\* submissions decided so far at most one was accepted, and once all are
\* decided exactly one was accepted and every other one failed with
\* QuotaExceeded.
C13_Decided(j) == jobs[j].op = "ingest" /\ jobs[j].pc # "new"

C13_Rejected(j) == C13_Decided(j) /\ jobs[j].result = "QuotaExceeded"

C13_Accepted(j) == C13_Decided(j) /\ jobs[j].result # "QuotaExceeded"

C13_AllSubmitAtQuotaMinusOne ==
    /\ \A j \in Jobs : jobs[j].op = "ingest"
    /\ jobs[1].doc = (DOCUMENT_QUOTA - 1) + 1

C13_QuotaEnforced ==
    /\ Cardinality(DOMAIN documents) <= DOCUMENT_QUOTA
    /\ Cardinality(DOMAIN documents) <= quotaUsed
    /\ quotaUsed <= DOCUMENT_QUOTA
    /\ C13_AllSubmitAtQuotaMinusOne =>
          /\ Cardinality({j \in Jobs : C13_Accepted(j)}) <= 1
          /\ (\A j \in Jobs : C13_Decided(j)) =>
                /\ Cardinality({j \in Jobs : C13_Accepted(j)}) = 1
                /\ \A j \in Jobs : C13_Accepted(j) \/ C13_Rejected(j)
                /\ Cardinality({j \in Jobs : C13_Rejected(j)}) = NJobs - 1

\* Every job submitted to the owner at quota - 1 and all are decided: one
\* holds the last place, the others were refused.
C13_Witness ==
    /\ C13_AllSubmitAtQuotaMinusOne
    /\ \A j \in Jobs : C13_Decided(j)
    /\ \E j \in Jobs : C13_Rejected(j)
    /\ \E j \in Jobs : C13_Accepted(j)
    /\ Cardinality(DOMAIN documents) = DOCUMENT_QUOTA

\* C14: when the vector upsert of an attempt has failed after its chunk
\* rows were written, the document is failed (until it is ingested again)
\* and no chunk row of that attempt is in the chunks table; and outside an
\* attempt or deletion in progress, every chunk row has a vector record
\* under its key.
C14_RowsOfAttempt(d, attempt) ==
    {c \in chunks : c.documentId = d /\ c.attempt = attempt}

C14_NoOrphanedRows ==
    /\ \A j \in Jobs :
          jobs[j].failedAt = "upsert" =>
             /\ C14_RowsOfAttempt(jobs[j].doc, jobs[j].attempt) = {}
             /\ (/\ jobs[j].doc \in DOMAIN documents
                 /\ documents[jobs[j].doc].attempts = jobs[j].attempt)
                   => /\ documents[jobs[j].doc].status = "failed"
                      /\ documents[jobs[j].doc].errorMessage = StageError("upsert")
    /\ \A c \in chunks :
          ~Busy(c.documentId) => \E v \in vectors : v.key = c.pineconeId

\* The upsert of a re-ingestion failed: its rows are gone and the rows it
\* had replaced are back.
C14_Witness ==
    \E j \in Jobs :
        /\ jobs[j].failedAt = "upsert"
        /\ jobs[j].previous # {}
        /\ ChunksOf(chunks, jobs[j].doc) = jobs[j].previous
        /\ documents[jobs[j].doc].status = "failed"

\* C15 as stated: in every state where a document is ready, chunk_count
\* is the number of its chunk rows, all of its latest attempt, and each row
\* has exactly one vector record under its key, written by that attempt.
\* It does not hold while the document is being deleted: the vectors go
\* first and the document is still ready, with its rows, until its row is
\* deleted.
C15_RowsCounted(d) ==
    LET rows == ChunksOf(chunks, d) IN
    /\ documents[d].chunkCount = Cardinality(rows)
    /\ rows # {}
    /\ \A c \in rows : c.attempt = documents[d].attempts

C15_RowsHaveVectors(d) ==
    \A c \in ChunksOf(chunks, d) :
        /\ Cardinality({v \in vectors : v.key = c.pineconeId}) = 1
        /\ \A v \in vectors :
              v.key = c.pineconeId =>
                 /\ v.document_id = d
                 /\ v.chunk_position = c.position
                 /\ v.attempt = c.attempt

C15_ReadyInEveryState ==
    \A d \in DOMAIN documents :
        documents[d].status = "ready" => C15_RowsCounted(d) /\ C15_RowsHaveVectors(d)

\* A deletion of the document has removed its vectors and not yet its rows.
C15_Deleting(d) ==
    \E j \in Jobs : jobs[j].op = "delete" /\ jobs[j].doc = d /\ jobs[j].pc = "rows"

\* C15: a document is ready only after the vector upsert of its most recent
\* attempt has succeeded: in every state where a document is ready,
\* chunk_count is the number of its chunk rows and all of them are those of
\* its latest attempt; each has exactly one vector record under its key,
\* written by that same attempt, except between the two steps of a
\* deletion of the document, when none of its rows has a vector record.
C15_ReadyIsConsistent ==
    \A d \in DOMAIN documents :
        documents[d].status = "ready" =>
           /\ C15_RowsCounted(d)
           /\ IF C15_Deleting(d)
              THEN \A c \in ChunksOf(chunks, d), v \in vectors : v.key # c.pineconeId
              ELSE C15_RowsHaveVectors(d)

\* A document became ready by a second attempt that produced fewer chunks
\* than the first.
C15_Witness ==
    \E d \in DOMAIN documents :
        /\ documents[d].status = "ready"
        /\ documents[d].attempts = 2
        /\ documents[d].chunkCount = 1
        /\ Len(documents[d].keyLog) = 2
        /\ Cardinality(documents[d].keyLog[1]) = MaxChunks

\* C16: every ingestion resolves. A document that is uploading or
\* processing eventually is ready or failed, whichever stage fails and also
\* when the ingestion is cancelled; and a failed document always carries a
\* non-empty error message.
C16_Documents == 1..(1 + NJobs)

C16_Terminal(d) ==
    d \in DOMAIN documents /\ documents[d].status \in {"ready", "failed"}

C16_InProgress(d) ==
    d \in DOMAIN documents /\ documents[d].status \in {"uploading", "processing"}

C16_FailedHasMessage ==
    \A d \in DOMAIN documents :
        documents[d].status = "failed" => documents[d].errorMessage \notin {NullMessage, ""}

C16_ResolvesToTerminal ==
    /\ \A d \in C16_Documents : C16_InProgress(d) ~> C16_Terminal(d)
    /\ []C16_FailedHasMessage

\* A cancelled ingestion left its document failed, with a message.
C16_Witness ==
    \E j \in Jobs :
        /\ jobs[j].failedAt = "cancel"
        /\ jobs[j].attempt = documents[jobs[j].doc].attempts
        /\ documents[jobs[j].doc].status = "failed"
        /\ documents[jobs[j].doc].errorMessage = StageError("cancel")

\* C17: document status moves only along uploading -> processing,
\* processing -> ready, processing -> failed, ready -> processing and
\* failed -> processing; a new document starts in uploading; no step makes
\* any other change of status.
C17_Status(docs, d) == IF d \in DOMAIN docs THEN docs[d].status ELSE "absent"

C17_Moves ==
    {<<"absent", "uploading">>,
     <<"uploading", "processing">>,
     <<"processing", "ready">>,
     <<"processing", "failed">>,
     <<"ready", "processing">>,
     <<"failed", "processing">>}

C17_StepAllowed ==
    \A d \in DOMAIN documents \cup DOMAIN documents' :
        LET from == C17_Status(documents, d)
            to == C17_Status(documents', d)
        IN  (from # to /\ to # "absent") => <<from, to>> \in C17_Moves

C17_StatusMoves == [][C17_StepAllowed]_vars

\* A document that had been ready is processing again, in its second
\* attempt.
C17_Witness ==
    \E d \in DOMAIN documents :
        /\ documents[d].status = "processing"
        /\ documents[d].attempts = 2
        /\ documents[d].keyLog # <<>>

\* C18: an attempt that fails in extraction, chunking or embedding writes
\* nothing to either store. Once it has failed, and until the document is
\* ingested again or deleted, the document's chunk rows and its vector
\* records are those it had when the attempt began, and of its own row only
\* the status and the error message have changed.
C18_EarlyStages == {"extract", "chunk", "embed"}

C18_LatestAttemptFailedEarly(j) ==
    /\ jobs[j].failedAt \in C18_EarlyStages
    /\ jobs[j].doc \in DOMAIN documents
    /\ documents[jobs[j].doc].attempts = jobs[j].attempt
    /\ ~Busy(jobs[j].doc)

C18_FailedAttemptWritesNothing ==
    \A j \in Jobs :
        C18_LatestAttemptFailedEarly(j) =>
           LET d == jobs[j].doc IN
           /\ ChunksOf(chunks, d) = jobs[j].before.rows
           /\ VectorsOf(vectors, d) = jobs[j].before.vecs
           /\ documents[d].status = "failed"
           /\ documents[d].errorMessage = StageError(jobs[j].failedAt)
           /\ documents[d].chunkCount = jobs[j].before.chunkCount

\* The re-ingestion of a document that had chunks failed at the embedding
\* stage.
C18_Witness ==
    \E j \in Jobs :
        /\ C18_LatestAttemptFailedEarly(j)
        /\ jobs[j].failedAt = "embed"
        /\ jobs[j].before.rows # {}
        /\ jobs[j].before.vecs # {}

\* C19: deletion removes a document's vector records, then its row with its
\* chunk rows, then releases the quota. While the rows are still to be
\* deleted the vectors are already gone; while the quota is still to be
\* released the row and the chunk rows are gone too and the counter still
\* counts the document; after the deletion no chunk row and no vector
\* record of the document is left and the counter was decremented once.
C19_Releasing == {j \in Jobs : jobs[j].pc = "release"}

C19_DeletionComplete ==
    /\ \A j \in Jobs :
          LET d == jobs[j].doc IN
          /\ jobs[j].pc = "rows" =>
                /\ VectorsOf(vectors, d) = {}
                /\ d \in DOMAIN documents
                /\ ChunksOf(chunks, d) = jobs[j].before.rows
                /\ jobs[j].released = 0
          /\ jobs[j].pc = "release" =>
                /\ VectorsOf(vectors, d) = {}
                /\ d \notin DOMAIN documents
                /\ ChunksOf(chunks, d) = {}
                /\ jobs[j].released = 0
          /\ jobs[j].result = "deleted" =>
                /\ VectorsOf(vectors, d) = {}
                /\ d \notin DOMAIN documents
                /\ ChunksOf(chunks, d) = {}
                /\ jobs[j].released = 1
    /\ quotaUsed = Cardinality(DOMAIN documents) + Cardinality(C19_Releasing)

\* A document that had chunk rows and vector records was deleted.
C19_Witness ==
    \E j \in Jobs :
        /\ jobs[j].result = "deleted"
        /\ Cardinality(jobs[j].before.rows) = MaxChunks
        /\ Cardinality(jobs[j].before.vecs) = MaxChunks

\* C20: re-ingestion is idempotent with respect to keys. The key of a chunk
\* is a function of (document, position) and of nothing else: two rows have
\* the same key exactly when they are the same chunk of the same document,
\* so the unique constraint is never violated; two successful ingestions of
\* a document into the same number of chunks produced the same set of keys;
\* and once a document is ready again, there is exactly one chunk row and
\* one vector record under each key of its latest ingestion.
C20_SameChunk(c1, c2) ==
    c1.documentId = c2.documentId /\ c1.position = c2.position

C20_KeysIdempotent ==
    /\ \A c1 \in chunks, c2 \in chunks :
          /\ (c1.pineconeId = c2.pineconeId) <=> C20_SameChunk(c1, c2)
          /\ C20_SameChunk(c1, c2) => c1 = c2
    /\ \A j \in Jobs : jobs[j].failedAt # "write"
    /\ \A d \in DOMAIN documents :
          LET log == documents[d].keyLog IN
          /\ \A a \in 1..Len(log), b \in 1..Len(log) :
                Cardinality(log[a]) = Cardinality(log[b]) => log[a] = log[b]
          /\ (documents[d].status = "ready" /\ ~Busy(d) /\ Len(log) >= 2) =>
                \A key \in log[Len(log)] :
                   /\ Cardinality({c \in chunks : c.pineconeId = key}) = 1
                   /\ Cardinality({v \in vectors : v.key = key}) = 1

\* A document was ingested twice into the most chunks, and is ready.
C20_Witness ==
    \E d \in DOMAIN documents :
        /\ documents[d].status = "ready"
        /\ Len(documents[d].keyLog) = 2
        /\ Cardinality(documents[d].keyLog[1]) = MaxChunks
        /\ documents[d].keyLog[2] = documents[d].keyLog[1]
        /\ Cardinality(ChunksOf(chunks, d)) = MaxChunks

\* What Math.ceil(length / 4) is for a text of that length: the least count
\* whose 4-unit tokens cover the text.
C24_IsCeiling(count, text) ==
    /\ count >= 0
    /\ 4 * count >= Len(text)
    /\ 4 * (count - 1) < Len(text)

\* C24: countTokensEstimate(text) is ceil(length(text) / 4) for every text,
\* 0 for the empty text, and a countTokens call that found the tokenizer
\* unavailable returns exactly the value of the synchronous estimate.
C24_EstimateIsCeiling ==
    \A p \in Callers :
        LET c == callers[p] IN
        /\ c.pc = "estimated" =>
              /\ C24_IsCeiling(c.count, c.text)
              /\ c.text = <<>> => c.count = 0
        /\ (c.pc = "done" /\ c.op = "countTokens" /\ c.tok = ResolvedNull) =>
              /\ C24_IsCeiling(c.count, c.text)
              /\ c.count = countTokensEstimate(c.text)

\* C24 witness: with the tokenizer unavailable, the synchronous estimate of
\* a text of 5 units has returned 2.
C24_Witness ==
    /\ tokenizerPromise = ResolvedNull
    /\ \E p \in Callers :
          /\ callers[p].pc = "estimated"
          /\ Len(callers[p].text) = 5
          /\ callers[p].count = 2

\* What exceedsTokenLimit and truncateToTokenLimit give on the arguments
\* of the call c in the mode of c.
C29_Exceeds(c, text) ==
    IF c.half THEN exceedsTokenLimitHalf(countTokens(c.tok, text), c.maxTokens)
    ELSE exceedsTokenLimit(countTokens(c.tok, text), c.maxTokens)

C29_Truncated(c) ==
    IF c.half THEN truncateToTokenLimitHalf(c.tok, c.text, c.maxTokens)
    ELSE truncateToTokenLimit(c.tok, c.text, c.maxTokens)

C29_DecodedPrefix(c) == decode(slice0(encode(c.text), c.maxTokens))

C27_ErrorOutcomes == {"sdk_validation", "http_validation", "transient", "rejected"}

\* C27: when a batch fails inside createEmbeddingsBatched the error reaches
\* the caller (the call has ended by throwing at the moment of the failure,
\* so it never returns a list, partial or not), the failed batch is the last
\* request of the call, and progress reports and inter-batch delays are
\* those of the batches answered before it: none follows the failure.
\* Between the failure of createEmbeddings and the failure of the call lies
\* the one turn of the microtask queue in which createEmbeddingsBatched
\* resumes with the error.
C27_FailureStopsRun ==
    \A r \in Runs :
        runs[r].kind = "batched" =>
            LET mine == RequestsOf(r)
                answered == SelectSeq(mine, LAMBDA q : q.outcome \in Answers)
            IN  /\ \A k \in 1..Len(mine) :
                      mine[k].outcome \in C27_ErrorOutcomes =>
                          /\ k = Len(mine)
                          /\ runs[r].pc \in {"returned", "failed"}
                          /\ runs[r].pc = "returned" =>
                                runs[r].thrown = createEmbeddingsError(mine[k].outcome)
                          /\ runs[r].pc = "failed" =>
                                /\ runs[r].error = createEmbeddingsError(mine[k].outcome)
                                /\ runs[r].endedAt = mine[k].retAt
                /\ runs[r].pc = "failed" =>
                      /\ runs[r].error # "none"
                      /\ \A k \in 1..Len(mine) : mine[k].outcome # "pending"
                      /\ Len(answered) = Len(mine) - (IF mistralReady THEN 1 ELSE 0)
                      /\ Len(runs[r].progress) = Len(answered)
                      /\ runs[r].waits = Len(answered)
                /\ runs[r].pc = "done" =>
                      \A k \in 1..Len(mine) : mine[k].outcome \in Answers

\* C27 witness: a batched call on more than 32 texts whose second batch
\* failed: it has thrown after two requests, one progress report (16 of the
\* total) and one delay, with 16 embeddings collected and never returned.
C27_Witness ==
    \E r \in Runs :
        /\ runs[r].kind = "batched"
        /\ Len(runs[r].texts) > 2 * MAX_BATCH_SIZE
        /\ runs[r].pc = "failed"
        /\ Len(RequestsOf(r)) = 2
        /\ RequestsOf(r)[2].outcome = "transient"
        /\ runs[r].progress = << <<MAX_BATCH_SIZE, Len(runs[r].texts)>> >>
        /\ runs[r].waits = 1
        /\ Len(runs[r].all) = MAX_BATCH_SIZE

\* C28: createEmbeddingsBatched called with an empty list returns an empty
\* list at once: no request is sent to the provider, the progress callback
\* is not invoked and no delay is waited, whether or not the client is
\* initialised; createEmbeddings called with an empty list on an
\* initialised client throws 'At least one text is required'.
C28_EmptyListReturnsEmpty ==
    \A r \in Runs :
        (runs[r].texts = <<>> /\ runs[r].pc \notin {"off", "ready"}) =>
            /\ runs[r].kind = "batched" =>
                  /\ runs[r].pc = "done"
                  /\ runs[r].all = <<>>
                  /\ runs[r].error = "none"
                  /\ RequestsOf(r) = <<>>
                  /\ runs[r].progress = <<>>
                  /\ runs[r].waits = 0
                  /\ runs[r].endedAt = 0
            /\ (runs[r].kind = "single" /\ mistralReady) =>
                  /\ runs[r].pc = "failed"
                  /\ runs[r].error = "empty"
                  /\ RequestsOf(r) = <<>>

\* C28 witness: a batched call on the empty list has returned the empty
\* list with the provider's log still empty.
C28_Witness ==
    \E r \in Runs :
        /\ runs[r].kind = "batched"
        /\ runs[r].texts = <<>>
        /\ runs[r].pc = "done"
        /\ runs[r].all = <<>>
        /\ requests = <<>>

\* The address ranges the secure fetcher must never connect to: private,
\* loopback, link-local (with the cloud metadata address 169.254.169.254),
\* unique-local, multicast and reserved (240.0.0.0/4 but the limited
\* broadcast address, which is a range of its own), of either address
\* family.
C21_DisallowedV4(o) ==
    \/ o[1] = 127
    \/ o[1] = 10
    \/ o[1] = 172 /\ o[2] \in 16..31
    \/ o[1] = 192 /\ o[2] = 168
    \/ o[1] = 169 /\ o[2] = 254
    \/ o[1] \in 224..239
    \/ o[1] >= 240 /\ o # <<255, 255, 255, 255>>

C21_Disallowed(ip) ==
    IF ipaddrParse(ip) # <<>> THEN C21_DisallowedV4(ipaddrParse(ip))
    ELSE ip \in {"::1", "fe80::1", "fd00::1", "ff02::1"}

\* The fetch requests made so far.
C21_Fetches == SelectSeq(externalCalls, LAMBDA c : c.kind = "fetch")

\* C21: the secure fetcher starts a fetch only after the URL parsed with
\* the https scheme, the host name resolved, and every address the host
\* resolves to, of either family, lies outside the disallowed ranges; a
\* request that was blocked, by a parse failure, a resolution failure or a
\* refusal, has made no fetch.
C21_FetchOnlyAllowedTargets ==
    /\ \A k \in 1..Len(C21_Fetches) :
          LET url == parseUrl(C21_Fetches[k].target) IN
          /\ url.ok
          /\ url.protocol = "https:"
          /\ dns.a.ok
          /\ \A ip \in dns.a.addresses \cup dns.aaaa : ~C21_Disallowed(ip)
    /\ upload.pc = "blocked" => C21_Fetches = <<>>

\* C21, for the A records alone: what the guard does ensure.
C21_FetchOnlyAllowedV4 ==
    /\ \A k \in 1..Len(C21_Fetches) :
          LET url == parseUrl(C21_Fetches[k].target) IN
          /\ url.ok
          /\ url.protocol = "https:"
          /\ dns.a.ok
          /\ \A ip \in dns.a.addresses : ~C21_Disallowed(ip)
    /\ upload.pc = "blocked" => C21_Fetches = <<>>

\* The length of the content lies within the bounds of a raw text.
C22_WithinBounds(content) ==
    content.present /\ Len(content.value) >= 100 /\ Len(content.value) <= 100000

\* C22: the upload route, on a raw-text body, reports an issue for the
\* content exactly when its length is outside 100..100000 characters; with
\* a valid title the submission is accepted exactly when the length is
\* within these bounds; and a rejected submission is answered 400 with no
\* call made to the embedding provider, the vector store or the network.
C22_TextLengthBounds ==
    (upload.entry = "upload" /\ upload.body.type = "text" /\ upload.pc # "received") =>
        /\ "content" \in upload.issues <=> ~C22_WithinBounds(upload.body.content)
        /\ titleValid(upload.body.title, FALSE) =>
              (upload.pc # "rejected" <=> C22_WithinBounds(upload.body.content))
        /\ upload.pc = "rejected" <=> upload.issues # {}
        /\ upload.pc = "rejected" => externalCalls = <<>> /\ upload.status = 400

\* C22 witness: a raw text of 99 characters with a valid title was rejected
\* for its content alone, and no external call was made.
C22_Witness ==
    /\ upload.entry = "upload"
    /\ upload.body.type = "text"
    /\ upload.pc = "rejected"
    /\ upload.body.content.present
    /\ Len(upload.body.content.value) = 99
    /\ upload.issues = {"content"}
    /\ externalCalls = <<>>

\* C22, the accepting side: a raw text of exactly 100 characters went down
\* the pipeline and reached the embedding provider.
C22_AcceptedAtLowerBound ==
    /\ upload.body.type = "text"
    /\ upload.pc = "processed"
    /\ Len(upload.body.content.value) = 100
    /\ \E k \in 1..Len(externalCalls) : externalCalls[k].kind = "embedding"

\* The URL of the body is one with the https scheme.
C23_IsHttps(body) ==
    /\ body.url.present
    /\ parseUrl(body.url.value).ok
    /\ parseUrl(body.url.value).protocol = "https:"

\* The submitted string starts with the scheme https, whatever follows the
\* colon (the scheme state of the parser alone: no host or path is parsed).
C23_SchemeIsHttps(body) ==
    /\ body.url.present
    /\ \E s \in {removeTabOrNewline(trimEnd(trimStart(body.url.value)))} :
          /\ schemeEnd(s) # 0
          /\ toLowerCase(SubSeq(s, 1, schemeEnd(s) - 1)) = "https"

\* C23: the upload route rejects every URL body whose URL does not have the
\* https scheme: such a request is answered 400 with an issue for the url,
\* and whatever went on to the fetch stage (the guard, the resolver, the
\* fetch) has an https URL.  A string of another scheme is rejected whether
\* or not the rest of it parses.
C23_HttpsOnlyUploads ==
    (upload.entry = "upload" /\ upload.body.type = "url" /\ upload.pc # "received") =>
        /\ (~C23_SchemeIsHttps(upload.body) \/ ~C23_IsHttps(upload.body)) =>
              /\ upload.pc = "rejected"
              /\ "url" \in upload.issues
              /\ upload.status = 400
              /\ externalCalls = <<>>
        /\ upload.pc # "rejected" =>
              /\ C23_SchemeIsHttps(upload.body)
              /\ C23_IsHttps(upload.body)
              /\ startsWith(upload.url, "https://")

\* C23 witness: a body with a well-formed http URL was rejected for its url
\* and nothing was asked of the resolver or fetched.
C23_Witness ==
    /\ upload.entry = "upload"
    /\ upload.pc = "rejected"
    /\ upload.body.url = Present("http://example.com/article")
    /\ isUrl(upload.body.url.value)
    /\ upload.issues = {"url"}
    /\ externalCalls = <<>>

\* The verified deliveries of an event type that have been answered.
C25_Answered(type) ==
    {d \in Deliveries : /\ webhookSecret
                        /\ deliveries[d].type = type
                        /\ deliveries[d].signature = "valid"
                        /\ deliveries[d].pc = "answered"}

\* C25: the user.created webhook is idempotent: whether the deliveries for
\* a clerk id come one after another or are handled at the same time, the
\* users table never holds more than one row for the id, holds exactly one
\* once a delivery for it is answered (no user.deleted event being among
\* the deliveries), and every verified delivery is answered 200.
C25_CreatedIdempotent ==
    /\ \A id \in ClerkIds : Cardinality({u \in users : u.clerkId = id}) <= 1
    /\ \A d \in C25_Answered("user.created") :
          /\ deliveries[d].status = 200
          /\ (\A e \in Deliveries : deliveries[e].type # "user.deleted") =>
                Cardinality({u \in users : u.clerkId = deliveries[d].clerkId}) = 1

\* C25, the part the unique constraint on clerk_id does ensure: never two
\* rows for one clerk id, and a delivery that found the row is answered 200.
C25_AtMostOneRow ==
    /\ \A id \in ClerkIds : Cardinality({u \in users : u.clerkId = id}) <= 1
    /\ \A d \in C25_Answered("user.created") :
          deliveries[d].existing => deliveries[d].status = 200

\* C26: a verified user.deleted event removes the users row of the clerk id
\* together with what references it: when the delete has run, no user row
\* for the id, no document of that user and no chunk of such a document is
\* left, also when the user owned documents, and the delivery is answered
\* 200.
C26_DeletedCascades ==
    \A d \in C25_Answered("user.deleted") :
        /\ deliveries[d].status = 200
        /\ deliveries[d].left = NoRows

\* The create requests sent for the index.
C30_Creates == SelectSeq(createRequests, LAMBDA q : q.name = PINECONE_INDEX_NAME)

\* C30: ensureIndexExists creates the index only when it is absent: over
\* any calls on an initialised client, overlapping or not, at most one
\* create request for the index is sent, none for an index that was there
\* from the start, and every call completes without error.
C30_CreatesAtMostOnce ==
    pineconeReady =>
        /\ Len(C30_Creates) <= 1
        /\ \A c \in EnsureCalls : ensureCalls[c].pc # "failed"

\* C30, the part the listing does ensure: a call that finds the index in
\* its listing returns without sending a create request, and every create
\* request comes from a call whose listing did not have the index.
C30_NoCreateWhenListed ==
    /\ \A c \in EnsureCalls :
          ensureCalls[c].indexExists =>
              /\ ensureCalls[c].pc = "done"
              /\ \A k \in 1..Len(createRequests) : createRequests[k].by # c
    /\ \A k \in 1..Len(createRequests) :
          /\ createRequests[k].name = PINECONE_INDEX_NAME
          /\ ~ensureCalls[createRequests[k].by].indexExists

=============================================================================
